---- MODULE Spec2Model ----
(***************************************************************************)
(* A model of rune-caster: the Rune / RuneString data model, the UTF-8/16  *)
(* decoders, the built-in spells and the caster / composition engine.      *)
(* The library is a set of synchronous functions; the state machine is a   *)
(* client that calls them with arguments drawn from bounded sets and keeps *)
(* the argument and the value returned by the last call.                   *)
(***************************************************************************)
EXTENDS Integers, Sequences, FiniteSets, TLC

\* Longest rune sequence handed to a spell.
MaxLen == 4

\* Longest byte / code-unit string handed to a decoder.
MaxUnits == 4

\* Code points are sampled every SampleStride values, and all of them are
\* taken within Window of each boundary of the encodings.
SampleStride == 4099

Window == 16

\* Longest rune sequence handed to a comparison.
MaxCompared == 2

\* Longest rune sequence searched for by find.
MaxNeedle == 2

\* Longest rune sequence sent through a two-spell pipeline.
MaxPipeLen == 2

(***************************************************************************)
(* language::Code and unicode.hpp                                          *)
(***************************************************************************)

\* The language codes the model uses (a subset of enum class Code).
Code ==
  {"Unknown", "Korean", "English", "Japanese", "Chinese", "Arabic",
   "Russian", "French", "Hebrew", "Thai"}

\* The numeric value of a language code: the key order of std::map<Code, size_t>.
CodeValue(lang) ==
  CASE lang = "Unknown"  -> 0
    [] lang = "Korean"   -> 1
    [] lang = "English"  -> 2
    [] lang = "Japanese" -> 3
    [] lang = "Chinese"  -> 4
    [] lang = "Arabic"   -> 5
    [] lang = "Russian"  -> 6
    [] lang = "French"   -> 8
    [] lang = "Hebrew"   -> 21
    [] lang = "Thai"     -> 22

\* unicode::is_whitespace
is_whitespace(cp) ==
  cp = 32 \/ cp = 9 \/ cp = 10 \/ cp = 13 \/ cp = 11 \/ cp = 12 \/ cp = 160

(***************************************************************************)
(* Rune                                                                    *)
(***************************************************************************)

\* Rune::detect_language (rune.cpp)
detect_language(cp) ==
  IF cp <= 127
    THEN IF (cp >= 65 /\ cp <= 90) \/ (cp >= 97 /\ cp <= 122)
           THEN "English" ELSE "Unknown"
  ELSE IF (cp >= 4352 /\ cp <= 4607) \/ (cp >= 12592 /\ cp <= 12687)
          \/ (cp >= 44032 /\ cp <= 55215)
    THEN "Korean"
  ELSE IF (cp >= 12352 /\ cp <= 12447) \/ (cp >= 12448 /\ cp <= 12543)
          \/ (cp >= 12784 /\ cp <= 12799)
    THEN "Japanese"
  ELSE IF (cp >= 19968 /\ cp <= 40959) \/ (cp >= 13312 /\ cp <= 19903)
    THEN "Chinese"
  ELSE IF (cp >= 128 /\ cp <= 591) \/ (cp >= 7680 /\ cp <= 7935)
    THEN "English"
  ELSE IF cp >= 1024 /\ cp <= 1279 THEN "Russian"
  ELSE IF cp >= 1536 /\ cp <= 1791 THEN "Arabic"
  ELSE IF cp >= 1424 /\ cp <= 1535 THEN "Hebrew"
  ELSE IF cp >= 3584 /\ cp <= 3711 THEN "Thai"
  ELSE "Unknown"

\* Rune::detect_language as defined inline in rune.hpp.
detect_language_inline(c) ==
  IF \/ (c >= 4352 /\ c <= 4607)
     \/ (c >= 12592 /\ c <= 12687)
     \/ (c >= 44032 /\ c <= 55215)
    THEN "Korean"
  ELSE IF \/ (c >= 12352 /\ c <= 12447)
          \/ (c >= 12448 /\ c <= 12543)
          \/ (c >= 12784 /\ c <= 12799)
    THEN "Japanese"
  ELSE IF \/ (c >= 19968 /\ c <= 40959)
          \/ (c >= 13312 /\ c <= 19903)
          \/ (c >= 131072 /\ c <= 173791)
    THEN "Chinese"
  ELSE IF c <= 591 \/ (c >= 7680 /\ c <= 7935)
    THEN "English"
  ELSE "Unknown"

\* Rune::Rune()
RuneDefault == [codepoint |-> 0, language |-> "Unknown", phoneme |-> ""]

\* Rune::Rune(char32_t codepoint): the language is auto-detected, no phoneme.
Rune(cp) ==
  [codepoint |-> cp, language |-> detect_language(cp), phoneme |-> ""]

\* Rune::Rune(char32_t codepoint, language::Code lang)
RuneWithLanguage(cp, lang) ==
  [codepoint |-> cp, language |-> lang, phoneme |-> ""]

\* Mutant of Rune_to_utf8: the 2-byte form is used up to 0xFFF.
Rune_to_utf8_wide_two_byte(r) ==
  LET c == r.codepoint IN
  IF c <= 127 THEN [threw |-> FALSE, bytes |-> <<c>>]
  ELSE IF c <= 4095
    THEN [threw |-> FALSE, bytes |-> <<192 + (c \div 64), 128 + (c % 64)>>]
  ELSE IF c <= 65535
    THEN [threw |-> FALSE,
          bytes |-> <<224 + (c \div 4096), 128 + ((c \div 64) % 64),
                      128 + (c % 64)>>]
  ELSE IF c <= 1114111
    THEN [threw |-> FALSE,
          bytes |-> <<240 + (c \div 262144), 128 + ((c \div 4096) % 64),
                      128 + ((c \div 64) % 64), 128 + (c % 64)>>]
  ELSE [threw |-> TRUE, bytes |-> <<>>]

\* Rune::to_utf8: the bytes (0..255) of the encoding; threw is TRUE when
\* std::invalid_argument is raised (codepoint above 0x10FFFF).
Rune_to_utf8(r) ==
  LET cp == r.codepoint IN
  IF cp <= 127 THEN [threw |-> FALSE, bytes |-> <<cp>>]
  ELSE IF cp <= 2047
    THEN [threw |-> FALSE, bytes |-> <<192 + (cp \div 64), 128 + (cp % 64)>>]
  ELSE IF cp <= 65535
    THEN [threw |-> FALSE,
          bytes |-> <<224 + (cp \div 4096), 128 + ((cp \div 64) % 64),
                      128 + (cp % 64)>>]
  ELSE IF cp <= 1114111
    THEN [threw |-> FALSE,
          bytes |-> <<240 + (cp \div 262144), 128 + ((cp \div 4096) % 64),
                      128 + ((cp \div 64) % 64), 128 + (cp % 64)>>]
  ELSE [threw |-> TRUE, bytes |-> <<>>]

\* Rune::to_utf16: one unit for the BMP, a surrogate pair above it; threw
\* is TRUE when std::invalid_argument is raised.
Rune_to_utf16(r) ==
  LET c == r.codepoint IN
  IF c <= 65535 THEN [threw |-> FALSE, units |-> <<c>>]
  ELSE IF c <= 1114111
    THEN LET adjusted == c - 65536 IN
         [threw |-> FALSE,
          units |-> <<55296 + (adjusted \div 1024), 56320 + (adjusted % 1024)>>]
  ELSE [threw |-> TRUE, units |-> <<>>]

\* (byte & 0xC0) == 0x80
IsContinuation(b) == b \div 64 = 2

\* Rune::from_utf8(std::string_view): decodes the first character of the
\* view; threw is TRUE when std::invalid_argument is raised.
Rune_from_utf8(utf8_char) ==
  LET Throw == [threw |-> TRUE, rune |-> Rune(0)]
      Ok(cp) == [threw |-> FALSE, rune |-> Rune(cp)]
      n == Len(utf8_char)
  IN
  IF n = 0 THEN Throw
  ELSE
    LET first == utf8_char[1] IN
    IF first <= 127 THEN Ok(first)
    ELSE IF first \div 32 = 6
      THEN IF n < 2 THEN Throw
           ELSE IF ~IsContinuation(utf8_char[2]) THEN Throw
           ELSE Ok((first % 32) * 64 + (utf8_char[2] % 64))
    ELSE IF first \div 16 = 14
      THEN IF n < 3 THEN Throw
           ELSE IF ~IsContinuation(utf8_char[2]) \/ ~IsContinuation(utf8_char[3])
             THEN Throw
           ELSE Ok((first % 16) * 4096 + (utf8_char[2] % 64) * 64
                   + (utf8_char[3] % 64))
    ELSE IF first \div 8 = 30
      THEN IF n < 4 THEN Throw
           ELSE IF ~IsContinuation(utf8_char[2]) \/ ~IsContinuation(utf8_char[3])
                   \/ ~IsContinuation(utf8_char[4])
             THEN Throw
           ELSE Ok((first % 8) * 262144 + (utf8_char[2] % 64) * 4096
                   + (utf8_char[3] % 64) * 64 + (utf8_char[4] % 64))
    ELSE Throw

\* Rune::from_utf16(std::u16string_view)
Rune_from_utf16(utf16_char) ==
  LET Throw == [threw |-> TRUE, rune |-> Rune(0)]
      Ok(cp) == [threw |-> FALSE, rune |-> Rune(cp)]
  IN
  IF Len(utf16_char) = 0 THEN Throw
  ELSE
    LET first == utf16_char[1] IN
    IF first >= 55296 /\ first <= 56319
      THEN IF Len(utf16_char) < 2 THEN Throw
           ELSE LET second == utf16_char[2] IN
                IF second < 56320 \/ second > 57343 THEN Throw
                ELSE Ok(65536 + (first % 1024) * 1024 + (second % 1024))
    ELSE IF first >= 56320 /\ first <= 57343 THEN Throw
    ELSE Ok(first)

(***************************************************************************)
(* RuneString (alias RuneSequence)                                         *)
(***************************************************************************)

\* The values an uninitialised primary_language_ can hold.  RuneString()
\* is defaulted and primary_language_ has no initialiser, so `RuneString r;`
\* leaves the member indeterminate; three representative values stand for
\* the 16-bit garbage.
Indeterminate == {"Unknown", "English", "French"}

\* `RuneString r;` (default-initialisation): no runes, primary_language_
\* indeterminate (u is the value the read yields).
DefaultInit(u) == [runes |-> <<>>, primary_language |-> u]

\* `RuneString()` (value-initialisation): zero-initialised, Code::Unknown.
ValueInit == [runes |-> <<>>, primary_language |-> "Unknown"]

\* How many runes of the sequence carry the language lang.
RECURSIVE CountLanguage(_, _)
CountLanguage(runes, lang) ==
  IF runes = <<>> THEN 0
  ELSE (IF Head(runes).language = lang THEN 1 ELSE 0)
       + CountLanguage(Tail(runes), lang)

\* The language_counts map and std::max_element over it: the first key, in
\* key order, whose count is the greatest; other when the map is empty.
MostFrequentLanguage(runes, other) ==
  LET counted == {l \in Code : l # "Unknown" /\ CountLanguage(runes, l) > 0} IN
  IF counted = {} THEN other
  ELSE CHOOSE l \in counted :
         \A m \in counted :
           \/ CountLanguage(runes, m) < CountLanguage(runes, l)
           \/ /\ CountLanguage(runes, m) = CountLanguage(runes, l)
              /\ CodeValue(l) <= CodeValue(m)

\* RuneString::RuneString(std::initializer_list<Rune>)
RuneStringOf(runes) ==
  [runes |-> runes, primary_language |-> MostFrequentLanguage(runes, "Unknown")]

\* RuneString::to_utf8: the concatenated encodings; threw when a rune's
\* to_utf8 raises.
RECURSIVE RuneString_to_utf8(_)
RuneString_to_utf8(runes) ==
  IF runes = <<>> THEN [threw |-> FALSE, bytes |-> <<>>]
  ELSE LET h == Rune_to_utf8(Head(runes))
           t == RuneString_to_utf8(Tail(runes))
       IN IF h.threw \/ t.threw THEN [threw |-> TRUE, bytes |-> <<>>]
          ELSE [threw |-> FALSE, bytes |-> h.bytes \o t.bytes]

\* The while loop of RuneString::from_utf8 from index i (1-based) on, with
\* the runes decoded so far.
RECURSIVE from_utf8_loop(_, _, _)
from_utf8_loop(utf8_text, i, runes) ==
  IF i > Len(utf8_text) THEN runes
  ELSE
    LET first_byte == utf8_text[i]
        char_length == IF first_byte <= 127 THEN 1
                       ELSE IF first_byte \div 32 = 6 THEN 2
                       ELSE IF first_byte \div 16 = 14 THEN 3
                       ELSE IF first_byte \div 8 = 30 THEN 4
                       ELSE 0
    IN
    IF char_length = 0 THEN from_utf8_loop(utf8_text, i + 1, runes)
    ELSE IF i + char_length - 1 > Len(utf8_text) THEN runes
    ELSE
      LET d == Rune_from_utf8(SubSeq(utf8_text, i, i + char_length - 1)) IN
      from_utf8_loop(utf8_text, i + char_length,
                     IF d.threw THEN runes ELSE Append(runes, d.rune))

\* RuneString::from_utf8(std::string_view): u is the value read from the
\* uninitialised primary_language_ of `RuneString result;`.
RuneString_from_utf8(utf8_text, u) ==
  IF utf8_text = <<>> THEN DefaultInit(u)
  ELSE LET runes == from_utf8_loop(utf8_text, 1, <<>>) IN
       [runes |-> runes, primary_language |-> MostFrequentLanguage(runes, u)]

\* The while loop of RuneString::from_utf16 from index i (1-based) on.
RECURSIVE from_utf16_loop(_, _, _)
from_utf16_loop(utf16_text, i, runes) ==
  IF i > Len(utf16_text) THEN runes
  ELSE
    LET first == utf16_text[i] IN
    IF first >= 55296 /\ first <= 56319
      THEN IF i + 1 > Len(utf16_text) THEN runes
           ELSE LET d == Rune_from_utf16(SubSeq(utf16_text, i, i + 1)) IN
                IF d.threw THEN from_utf16_loop(utf16_text, i + 1, runes)
                ELSE from_utf16_loop(utf16_text, i + 2, Append(runes, d.rune))
    ELSE IF first >= 56320 /\ first <= 57343
      THEN from_utf16_loop(utf16_text, i + 1, runes)
    ELSE LET d == Rune_from_utf16(SubSeq(utf16_text, i, i)) IN
         from_utf16_loop(utf16_text, i + 1,
                         IF d.threw THEN runes ELSE Append(runes, d.rune))

\* RuneString::from_utf16(std::u16string_view)
RuneString_from_utf16(utf16_text, u) ==
  IF utf16_text = <<>> THEN DefaultInit(u)
  ELSE LET runes == from_utf16_loop(utf16_text, 1, <<>>) IN
       [runes |-> runes, primary_language |-> MostFrequentLanguage(runes, u)]

\* RuneString::from_utf32(std::u32string_view): Rune(codepoint) is noexcept,
\* so every code unit becomes a rune.
RuneString_from_utf32(utf32_text, u) ==
  IF utf32_text = <<>> THEN DefaultInit(u)
  ELSE LET runes == [i \in 1..Len(utf32_text) |-> Rune(utf32_text[i])] IN
       [runes |-> runes, primary_language |-> MostFrequentLanguage(runes, u)]

(***************************************************************************)
(* RuneString operations (rune_sequence.cpp)                               *)
(***************************************************************************)

\* RuneString::npos, the size_type value of -1.
npos == -1

\* RuneString::RuneString(language::Code primary_lang)
RuneStringWithLanguage(primary_lang) ==
  [runes |-> <<>>, primary_language |-> primary_lang]

\* substr building its result with the voting constructor instead.
RuneString_substr_revotes(s, start, length) ==
  LET n == Len(s.runes)
      last == IF length = npos \/ start + length > n THEN n ELSE start + length
  IN RuneStringOf(SubSeq(s.runes, start + 1, last))

\* RuneString::substr(size_type start, size_type length); start is 0-based.
RuneString_substr(s, start, length) ==
  IF start >= Len(s.runes) THEN RuneStringWithLanguage(s.primary_language)
  ELSE
    LET remaining == Len(s.runes) - start
        actual_length == IF length = npos THEN remaining
                         ELSE IF length < remaining THEN length ELSE remaining
    IN [runes |-> SubSeq(s.runes, start + 1, start + actual_length),
        primary_language |-> s.primary_language]

(***************************************************************************)
(* Comparison (rune.hpp, rune_sequence.hpp): operator== and operator<=>    *)
(* are defaulted, so they compare the members in declaration order.        *)
(***************************************************************************)

\* Rune::Rune(char32_t, language::Code, std::string)
RuneWithPhoneme(c, lang, phoneme) ==
  [codepoint |-> c, language |-> lang, phoneme |-> phoneme]

\* The phonemes used, in std::string order.
Phonemes == <<"", "ga">>

\* std::string operator< on the phonemes used.
PhonemeLess(a, b) ==
  \E i, j \in 1..Len(Phonemes) : Phonemes[i] = a /\ Phonemes[j] = b /\ i < j

\* Rune::operator== (defaulted): codepoint_, language_, phoneme_.
Rune_eq(a, b) ==
  /\ a.codepoint = b.codepoint
  /\ a.language = b.language
  /\ a.phoneme = b.phoneme

\* Rune::operator<=> (defaulted), as a < b.
Rune_less(a, b) ==
  \/ a.codepoint < b.codepoint
  \/ /\ a.codepoint = b.codepoint
     /\ \/ CodeValue(a.language) < CodeValue(b.language)
        \/ /\ a.language = b.language
           /\ PhonemeLess(a.phoneme, b.phoneme)

\* std::vector<Rune>::operator==
RECURSIVE Runes_eq(_, _)
Runes_eq(a, b) ==
  IF a = <<>> \/ b = <<>> THEN a = <<>> /\ b = <<>>
  ELSE Rune_eq(Head(a), Head(b)) /\ Runes_eq(Tail(a), Tail(b))

\* std::vector<Rune>::operator<=>, as a < b: lexicographic.
RECURSIVE Runes_less(_, _)
Runes_less(a, b) ==
  IF b = <<>> THEN FALSE
  ELSE IF a = <<>> THEN TRUE
  ELSE IF Rune_less(Head(a), Head(b)) THEN TRUE
  ELSE IF Rune_less(Head(b), Head(a)) THEN FALSE
  ELSE Runes_less(Tail(a), Tail(b))

\* RuneString::operator== (defaulted): runes_, primary_language_.
RuneString_eq(a, b) ==
  /\ Runes_eq(a.runes, b.runes)
  /\ a.primary_language = b.primary_language

\* RuneString::operator<=> (defaulted), as a < b.
RuneString_less(a, b) ==
  \/ Runes_less(a.runes, b.runes)
  \/ /\ ~Runes_less(b.runes, a.runes)
     /\ CodeValue(a.primary_language) < CodeValue(b.primary_language)

(***************************************************************************)
(* RuneString search, append and the hinted decoder (rune_sequence.cpp).   *)
(* Indices are 0-based as in the source.                                   *)
(***************************************************************************)

\* The least element of a non-empty set of numbers.
Least(K) == CHOOSE i \in K : \A k \in K : i <= k

\* RuneString::find(const Rune&, size_type pos): std::find from pos on.
RuneString_find_rune(s, r, pos) ==
  IF pos >= Len(s.runes) THEN npos
  ELSE LET found == {i \in pos..(Len(s.runes) - 1) : Rune_eq(s.runes[i + 1], r)}
       IN IF found = {} THEN npos ELSE Least(found)

\* RuneString::find(const RuneString&, size_type pos): std::search from pos.
RuneString_find(s, str, pos) ==
  IF str.runes = <<>> THEN pos
  ELSE IF pos >= Len(s.runes) \/ Len(str.runes) > Len(s.runes) - pos THEN npos
  ELSE LET found ==
             {i \in pos..(Len(s.runes) - Len(str.runes)) :
                \A k \in 1..Len(str.runes) :
                  Rune_eq(s.runes[i + k], str.runes[k])}
       IN IF found = {} THEN npos ELSE Least(found)

\* RuneString::contains(const Rune&)
RuneString_contains_rune(s, r) == RuneString_find_rune(s, r, 0) # npos

\* RuneString::contains(const RuneString&)
RuneString_contains(s, str) == RuneString_find(s, str, 0) # npos

\* Mutant of RuneString_append: the primary language is voted again.
RuneString_append_revotes(s, other) ==
  RuneStringOf(s.runes \o other.runes)

\* RuneString::append(const RuneString&)
RuneString_append(s, other) ==
  [runes |-> s.runes \o other.runes, primary_language |-> s.primary_language]

\* RuneString::append(const Rune&)
RuneString_append_rune(s, r) ==
  [runes |-> Append(s.runes, r), primary_language |-> s.primary_language]

\* RuneString::append(std::string_view)
RuneString_append_utf8(s, utf8, u) ==
  RuneString_append(s, RuneString_from_utf8(utf8, u))

\* RuneString::set_primary_language
RuneString_set_primary_language(s, lang) ==
  [runes |-> s.runes, primary_language |-> lang]

\* Rune::set_language
Rune_set_language(r, lang) ==
  [codepoint |-> r.codepoint, language |-> lang, phoneme |-> r.phoneme]

\* RuneString::from_utf8(std::string_view, language::Code)
RuneString_from_utf8_lang(utf8_text, lang, u) ==
  LET result == RuneString_from_utf8(utf8_text, u) IN
  [runes |-> [i \in 1..Len(result.runes) |->
                IF result.runes[i].language = "Unknown"
                  THEN Rune_set_language(result.runes[i], lang)
                  ELSE result.runes[i]],
   primary_language |-> lang]

(***************************************************************************)
(* LanguageDetector (language_detector.cpp): a vote over the scripts of    *)
(* the units decides the language attached to a copy of the input.         *)
(***************************************************************************)

\* unicode::is_latin
is_latin(c) ==
  \/ (c >= 65 /\ c <= 90)
  \/ (c >= 97 /\ c <= 122)
  \/ (c >= 192 /\ c <= 255)

\* unicode::is_hangul
is_hangul(c) ==
  \/ (c >= 4352 /\ c <= 4607)
  \/ (c >= 12592 /\ c <= 12687)
  \/ (c >= 44032 /\ c <= 55215)

\* unicode::is_hiragana
is_hiragana(c) == c >= 12352 /\ c <= 12447

\* unicode::is_katakana
is_katakana(c) == c >= 12448 /\ c <= 12543

\* unicode::is_kanji
is_kanji(c) ==
  \/ (c >= 19968 /\ c <= 40959)
  \/ (c >= 13312 /\ c <= 19903)

\* enum class Script
Script ==
  {"Unknown", "Latin", "Hangul", "Hiragana", "Katakana", "Han", "Arabic",
   "Cyrillic", "Greek", "Hebrew"}

\* unicode::get_script
get_script(c) ==
  IF is_latin(c) THEN "Latin"
  ELSE IF is_hangul(c) THEN "Hangul"
  ELSE IF is_hiragana(c) THEN "Hiragana"
  ELSE IF is_katakana(c) THEN "Katakana"
  ELSE IF is_kanji(c) THEN "Han"
  ELSE "Unknown"

\* Rune::script
Rune_script(r) == get_script(r.codepoint)

\* script_counts[script] after the counting loop: every unit is counted,
\* whatever its script.
RECURSIVE script_counts(_, _)
script_counts(runes, script) ==
  IF runes = <<>> THEN 0
  ELSE (IF Rune_script(Head(runes)) = script THEN 1 ELSE 0)
       + script_counts(Tail(runes), script)

\* The keys of the script_counts map.
counted_scripts(runes) == {sc \in Script : script_counts(runes, sc) > 0}

\* The keys std::max_element can return: those with the greatest count.
\* Which one of several is met first depends on the iteration order of the
\* std::unordered_map, which is unspecified.
most_common(runes) ==
  {sc \in counted_scripts(runes) :
     \A other \in counted_scripts(runes) :
       script_counts(runes, other) <= script_counts(runes, sc)}

\* The switch of detect_language_from_script.  Its cases for Devanagari
\* name an enumerator that Script does not have and are left out.
script_language(script) ==
  CASE script = "Latin" -> "English"
    [] script = "Hangul" -> "Korean"
    [] script \in {"Hiragana", "Katakana", "Han"} -> "Japanese"
    [] script = "Cyrillic" -> "Russian"
    [] script = "Arabic" -> "Arabic"
    [] OTHER -> "Unknown"

\* LanguageDetector::detect_language_from_script: the languages it can
\* return, one for each key max_element can meet first.
detect_language_from_script(text) ==
  IF counted_scripts(text.runes) = {} THEN {"Unknown"}
  ELSE {script_language(sc) : sc \in most_common(text.runes)}

\* result.set_language_hint(detected_language): RuneString declares no such
\* member; the hint of a sequence is its primary language.
RuneString_set_language_hint(s, lang) ==
  RuneString_set_primary_language(s, lang)

(***************************************************************************)
(* Spells (spell_core.hpp).  A call returns an outcome: the value          *)
(* returned, or threw = TRUE when an exception leaves the call.            *)
(***************************************************************************)

Returned(value) == [threw |-> FALSE, value |-> value]

Raised == [threw |-> TRUE, value |-> ValueInit]

\* LanguageDetector::operator(), when the vote returned detected_language.
LanguageDetector(input, detected_language) ==
  LET result == input IN
  Returned(RuneString_set_language_hint(result, detected_language))

\* Mutant of ws_emit: the collapse flag is ignored, runs are always merged.
ws_emit_always_collapse(rune, collapse_multiple_, prev_was_whitespace) ==
  IF is_whitespace(rune.codepoint)
    THEN IF ~prev_was_whitespace
           THEN <<RuneWithLanguage(32, rune.language)>>
           ELSE <<>>
    ELSE <<rune>>

\* WhitespaceNormalizer::operator(), pass 1, loop body: the units appended
\* to temp_result for one rune, given prev_was_whitespace.
ws_emit(rune, collapse_multiple_, prev_was_whitespace) ==
  IF is_whitespace(rune.codepoint)
    THEN IF collapse_multiple_
           THEN IF ~prev_was_whitespace
                  THEN <<RuneWithLanguage(32, rune.language)>>
                  ELSE <<>>
           ELSE <<RuneWithLanguage(32, rune.language)>>
    ELSE <<rune>>

\* WhitespaceNormalizer::operator(), pass 1: the for loop over the input.
RECURSIVE ws_pass1(_, _, _)
ws_pass1(runes, collapse_multiple_, prev_was_whitespace) ==
  IF runes = <<>> THEN <<>>
  ELSE ws_emit(Head(runes), collapse_multiple_, prev_was_whitespace)
       \o ws_pass1(Tail(runes), collapse_multiple_,
                   is_whitespace(Head(runes).codepoint))

\* `while (start_it != end && start_it->is_whitespace()) ++start_it;`
\* as the 1-based index of the first unit kept.
RECURSIVE skip_leading(_, _)
skip_leading(runes, start) ==
  IF start <= Len(runes) /\ is_whitespace(runes[start].codepoint)
    THEN skip_leading(runes, start + 1)
    ELSE start

\* `while (end_it != start_it && (end_it - 1)->is_whitespace()) --end_it;`
\* as the 1-based index one past the last unit kept.
RECURSIVE skip_trailing(_, _, _)
skip_trailing(runes, start, end) ==
  IF end # start /\ is_whitespace(runes[end - 1].codepoint)
    THEN skip_trailing(runes, start, end - 1)
    ELSE end

\* Mutant of ws_trim: only the leading whitespace is removed.
ws_trim_leading_only(temp_result) ==
  SubSeq(temp_result, skip_leading(temp_result, 1), Len(temp_result))

\* WhitespaceNormalizer::operator(), pass 2: the units copied to result.
ws_trim(temp_result) ==
  LET start == skip_leading(temp_result, 1)
      end == skip_trailing(temp_result, start, Len(temp_result) + 1)
  IN IF start < end THEN SubSeq(temp_result, start, end - 1) ELSE <<>>

\* WhitespaceNormalizer::operator().  temp_result and result are
\* default-initialised, so the primary language returned is indeterminate (u).
WhitespaceNormalizer(collapse_multiple_, trim_edges_, input, u) ==
  IF input.runes = <<>> THEN Returned(ValueInit)
  ELSE
    LET temp_result == ws_pass1(input.runes, collapse_multiple_, FALSE) IN
    IF ~trim_edges_
      THEN Returned([runes |-> temp_result, primary_language |-> u])
      ELSE Returned([runes |-> ws_trim(temp_result), primary_language |-> u])

\* CaseConverter::operator(), ASCII fallback, Title branch for one byte:
\* the byte pushed and the new at_word_start.
title_step(ch, at_word_start) ==
  IF ch = 32 \/ ch = 9 \/ ch = 10
    THEN [ch |-> ch, at_word_start |-> TRUE]
  ELSE IF at_word_start /\ ch >= 97 /\ ch <= 122
    THEN [ch |-> ch - 32, at_word_start |-> FALSE]
  ELSE [ch |-> IF ch >= 65 /\ ch <= 90 /\ ~at_word_start THEN ch + 32 ELSE ch,
        at_word_start |->
          IF (ch >= 97 /\ ch <= 122) \/ (ch >= 65 /\ ch <= 90)
            THEN FALSE ELSE at_word_start]

\* Mutant of case_step: the upper ends of the letter ranges are not tested.
case_step_open_ranges(case_type_, ch, at_word_start) ==
  CASE case_type_ = "Lower" ->
         [ch |-> IF ch >= 65 THEN (ch + 32) % 256 ELSE ch,
          at_word_start |-> at_word_start]
    [] case_type_ = "Upper" ->
         [ch |-> IF ch >= 97 THEN ch - 32 ELSE ch,
          at_word_start |-> at_word_start]
    [] case_type_ = "Title" -> title_step(ch, at_word_start)

\* Mutant of case_step: Lower tests ch > 'A', so "A" is not lowered.
case_step_lower_excludes_A(case_type_, ch, at_word_start) ==
  CASE case_type_ = "Lower" ->
         [ch |-> IF ch > 65 /\ ch <= 90 THEN ch + 32 ELSE ch,
          at_word_start |-> at_word_start]
    [] case_type_ = "Upper" ->
         [ch |-> IF ch >= 97 /\ ch <= 122 THEN ch - 32 ELSE ch,
          at_word_start |-> at_word_start]
    [] case_type_ = "Title" -> title_step(ch, at_word_start)

\* CaseConverter::operator(), ASCII fallback: the switch for one byte.
case_step(case_type_, ch, at_word_start) ==
  CASE case_type_ = "Lower" ->
         [ch |-> IF ch >= 65 /\ ch <= 90 THEN ch + 32 ELSE ch,
          at_word_start |-> at_word_start]
    [] case_type_ = "Upper" ->
         [ch |-> IF ch >= 97 /\ ch <= 122 THEN ch - 32 ELSE ch,
          at_word_start |-> at_word_start]
    [] case_type_ = "Title" -> title_step(ch, at_word_start)

\* CaseConverter::operator(), ASCII fallback: the loop over the UTF-8 bytes.
RECURSIVE case_loop(_, _, _)
case_loop(case_type_, utf8_text, at_word_start) ==
  IF utf8_text = <<>> THEN <<>>
  ELSE LET s == case_step(case_type_, Head(utf8_text), at_word_start) IN
       <<s.ch>> \o case_loop(case_type_, Tail(utf8_text), s.at_word_start)

\* The value of the local at_word_start when the loop starts (line 59).
at_word_start_init == TRUE

\* CaseConverter::operator() (the build without utfcpp and ICU).
\* input.to_utf8() is outside the try block, so its exception leaves the call.
CaseConverter(case_type_, input, u) ==
  IF input.runes = <<>> THEN Returned(ValueInit)
  ELSE
    LET utf8_text == RuneString_to_utf8(input.runes) IN
    IF utf8_text.threw THEN Raised
    ELSE Returned(RuneString_from_utf8(
           case_loop(case_type_, utf8_text.bytes, at_word_start_init), u))

\* Mutant of trim_start: at most one leading whitespace unit is removed.
trim_start_one_only(runes, start, end) ==
  IF start < end /\ is_whitespace(runes[start + 1].codepoint)
    THEN start + 1
  ELSE start

\* TrimEdges: while (start < end && input[start].is_whitespace()) ++start;
RECURSIVE trim_start(_, _, _)
trim_start(runes, start, end) ==
  IF start < end /\ is_whitespace(runes[start + 1].codepoint)
    THEN trim_start(runes, start + 1, end)
  ELSE start

\* Mutant of trim_end: nothing is removed at the end.
trim_end_keeps_all(runes, start, end) == end

\* TrimEdges: while (end > start && input[end - 1].is_whitespace()) --end;
RECURSIVE trim_end(_, _, _)
trim_end(runes, start, end) ==
  IF end > start /\ is_whitespace(runes[end].codepoint)
    THEN trim_end(runes, start, end - 1)
  ELSE end

\* TrimEdges::operator()
TrimEdges(input) ==
  IF input.runes = <<>> THEN Returned(ValueInit)
  ELSE
    LET start == trim_start(input.runes, 0, Len(input.runes))
        end == trim_end(input.runes, start, Len(input.runes))
    IN Returned(RuneString_substr(input, start, end - start))

\* unicode::is_punctuation
is_punctuation(c) ==
  \/ (c >= 33 /\ c <= 47)
  \/ (c >= 58 /\ c <= 64)
  \/ (c >= 91 /\ c <= 96)
  \/ (c >= 123 /\ c <= 126)

\* Mutant of filter_keeps: the mode is ignored, punctuation is removed.
filter_keeps_always_removes(remove_mode_, rune) ==
  ~is_punctuation(rune.codepoint)

\* PunctuationFilter::operator(): whether the loop body pushes the rune.
filter_keeps(remove_mode_, rune) ==
  LET is_punct == is_punctuation(rune.codepoint) IN
  IF remove_mode_ THEN ~is_punct ELSE is_punct

\* PunctuationFilter::operator(): the loop over the input.
RECURSIVE filter_loop(_, _)
filter_loop(remove_mode_, runes) ==
  IF runes = <<>> THEN <<>>
  ELSE (IF filter_keeps(remove_mode_, Head(runes)) THEN <<Head(runes)>>
        ELSE <<>>)
       \o filter_loop(remove_mode_, Tail(runes))

\* PunctuationFilter::operator().  result is default-initialised, so the
\* primary language returned is indeterminate (u).
PunctuationFilter(remove_mode_, input, u) ==
  IF input.runes = <<>> THEN Returned(ValueInit)
  ELSE Returned([runes |-> filter_loop(remove_mode_, input.runes),
                 primary_language |-> u])

\* enum class NormalizationForm
NormalizationForm == {"NFC", "NFD", "NFKC", "NFKD"}

\* Mutant of normalize_fallback: normalized is left empty.
normalize_leaves_empty(form_, utf8_text) == <<>>

\* UnicodeNormalizer::operator(), the branch compiled without uni-algo and
\* ICU: normalized = utf8_text, whatever the form.
normalize_fallback(form_, utf8_text) == utf8_text

\* UnicodeNormalizer::operator().  input.to_utf8() is outside the try
\* block, so its exception leaves the call.
UnicodeNormalizer(form_, input, u) ==
  IF input.runes = <<>> THEN Returned(ValueInit)
  ELSE
    LET utf8_text == RuneString_to_utf8(input.runes) IN
    IF utf8_text.threw THEN Raised
    ELSE Returned(RuneString_from_utf8(
           normalize_fallback(form_, utf8_text.bytes), u))

\* Mutant of tokenizer_flush: current is pushed even when it is empty.
tokenizer_flush_always(tokens, current) == Append(tokens, current)

\* WhitespaceTokenizer::operator(): if (!current.empty()) push_back(current)
tokenizer_flush(tokens, current) ==
  IF current.runes # <<>> THEN Append(tokens, current) ELSE tokens

\* WhitespaceTokenizer::operator(): the loop, with the tokens pushed so far
\* and the token being collected.
RECURSIVE tokenizer_loop(_, _, _)
tokenizer_loop(runes, tokens, current) ==
  IF runes = <<>> THEN tokenizer_flush(tokens, current)
  ELSE IF is_whitespace(Head(runes).codepoint)
    THEN tokenizer_loop(Tail(runes), tokenizer_flush(tokens, current),
                        [runes |-> <<>>,
                         primary_language |-> current.primary_language])
  ELSE tokenizer_loop(Tail(runes), tokens,
                      [runes |-> Append(current.runes, Head(runes)),
                       primary_language |-> current.primary_language])

\* Mutant of WhitespaceTokenizer: no early return, and current is pushed
\* after the loop whether it is empty or not.
WhitespaceTokenizer_pushes_last(input, u) ==
  Append(tokenizer_loop(input.runes, <<>>, DefaultInit(u)), DefaultInit(u))

\* WhitespaceTokenizer::operator().  current is default-initialised, so the
\* primary language of every token is indeterminate (u).
WhitespaceTokenizer(input, u) ==
  IF input.runes = <<>> THEN <<>>
  ELSE tokenizer_loop(input.runes, <<>>, DefaultInit(u))

TrimEdgesSpell ==
  [name |-> "TrimEdges", collapse_multiple_ |-> FALSE, trim_edges_ |-> FALSE,
   case_type_ |-> "none"]

WhitespaceNormalizerSpell(c, t) ==
  [name |-> "WhitespaceNormalizer", collapse_multiple_ |-> c,
   trim_edges_ |-> t, case_type_ |-> "none"]

CaseConverterSpell(m) ==
  [name |-> "CaseConverter", collapse_multiple_ |-> FALSE,
   trim_edges_ |-> FALSE, case_type_ |-> m]

PunctuationFilterSpell(remove) ==
  [name |-> "PunctuationFilter", collapse_multiple_ |-> FALSE,
   trim_edges_ |-> FALSE, case_type_ |-> "none", remove_mode_ |-> remove]

UnicodeNormalizerSpell(nf) ==
  [name |-> "UnicodeNormalizer", collapse_multiple_ |-> FALSE,
   trim_edges_ |-> FALSE, case_type_ |-> "none", form_ |-> nf]

LanguageDetectorSpell ==
  [name |-> "LanguageDetector", collapse_multiple_ |-> FALSE,
   trim_edges_ |-> FALSE, case_type_ |-> "none"]

NoSpell ==
  [name |-> "none", collapse_multiple_ |-> FALSE, trim_edges_ |-> FALSE,
   case_type_ |-> "none"]

CaseType == {"Lower", "Upper", "Title"}

\* spell(input): the virtual call of operator() on a sequence spell.
Invoke(s, input, u) ==
  CASE s.name = "WhitespaceNormalizer" ->
         WhitespaceNormalizer(s.collapse_multiple_, s.trim_edges_, input, u)
    [] s.name = "CaseConverter" -> CaseConverter(s.case_type_, input, u)
    [] s.name = "TrimEdges" -> TrimEdges(input)
    [] s.name = "PunctuationFilter" ->
         PunctuationFilter(s.remove_mode_, input, u)
    [] s.name = "UnicodeNormalizer" -> UnicodeNormalizer(s.form_, input, u)

(***************************************************************************)
(* Composition: SpellComposition (spell_composition.hpp) and the unified   *)
(* Spell with its pipe (spell_unified.hpp, unified_spell.cpp).  A call is  *)
(* modelled by the set of outcomes it can have, one per value each         *)
(* uninitialised primary language read on the way can hold.                *)
(***************************************************************************)

\* compose(first, second): SpellComposition{first, second}
compose(first, second) ==
  [name |-> "SpellComposition", first_spell_ |-> first, second_spell_ |-> second]

\* Spell::Spell(transform_function transform, std::string name, ...): the
\* constructor an argument of type std::function selects.
Spell_from_function(transform, name_) ==
  [name |-> "Spell", transform_ |-> transform, name_ |-> name_,
   is_composition_ |-> FALSE, composition_depth_ |-> 1]

\* The same constructor with its default name.
UnifiedSpell(transform) == Spell_from_function(transform, "CustomSpell")

\* Spell::Spell() noexcept: the transform is the lambda `return input;`.
Spell_default ==
  [name |-> "Spell", transform_ |-> [name |-> "identity"],
   name_ |-> "Identity",
   is_composition_ |-> FALSE, composition_depth_ |-> 1]

\* Spell::identity(): return Spell{};
Spell_identity == Spell_default

\* The values an uninitialised size_t member is read as.
IndeterminateDepth == {0, 1, 2}

\* template<typename Func> Spell::Spell(Func&& func, std::string name, ...):
\* the constructor a lambda or functor selects.  Its initialiser list names
\* transform_, name_, description_ and id_ only, and the members have no
\* default initialiser: is_composition_ and composition_depth_ hold the
\* indeterminate values c and d.
Spell_from_functor(func, name_, c, d) ==
  [name |-> "Spell", transform_ |-> func, name_ |-> name_,
   is_composition_ |-> c, composition_depth_ |-> d]

\* spell_factory::make_spell: return Spell{lambda, name, description};
make_spell(lambda, name_, c, d) == Spell_from_functor(lambda, name_, c, d)

\* spell_factory::per_rune_spell(rune_transform): make_spell of the closure
\* that appends transform(rune) for each rune.
per_rune_spell(rune_transform, c, d) ==
  make_spell([name |-> "per_rune", transform |-> rune_transform],
             "PerRuneSpell", c, d)

\* spell_factory::filter_spell(predicate): make_spell of the closure that
\* appends the runes pred accepts.
filter_spell(predicate, c, d) ==
  make_spell([name |-> "filter", pred |-> predicate], "FilterSpell", c, d)

\* Spell::constant(constant_result): Spell(lambda, "Constant", ...)
Spell_constant(constant_result, c, d) ==
  Spell_from_functor([name |-> "constant", result |-> constant_result],
                     "Constant", c, d)

\* Spell::conditional(condition, if_true, if_false): Spell(lambda, name, ...)
\* with name "Conditional(" + if_true.name() + "/" + if_false.name() + ")".
Spell_conditional(condition, if_true, if_false, c, d) ==
  Spell_from_functor([name |-> "conditional", condition |-> condition,
                      if_true |-> if_true, if_false |-> if_false],
                     "Conditional(" \o if_true.name_ \o "/"
                       \o if_false.name_ \o ")", c, d)

\* std::string::find(str, pos): the first index >= pos where str occurs,
\* npos when there is none (an empty str occurs at every pos <= size()).
string_find(text, str, pos) ==
  LET hits == {i \in pos..(Len(text) - Len(str)) :
                 SubSeq(text, i + 1, i + Len(str)) = str}
  IN IF hits = {} THEN npos ELSE Least(hits)

\* std::string::replace(pos, len, str)
string_replace(text, pos, len, str) ==
  SubSeq(text, 1, pos) \o str \o SubSeq(text, pos + len + 1, Len(text))

\* The bytes of " -> ".
Arrow == <<32, 45, 62, 32>>

\* operator""_spell(replacement_rule, len).  The name
\* "Replace(\"" + old_text + "\" -> \"" + new_text + "\")" is kept as its
\* first word: a name is only ever compared with "Identity".
literal_spell(replacement_rule, c, d) ==
  LET rule == replacement_rule
      arrow_pos == string_find(rule, Arrow, 0)
  IN IF arrow_pos = npos THEN Spell_identity
     ELSE Spell_from_functor(
            [name |-> "replace",
             old_text |-> SubSeq(rule, 1, arrow_pos),
             new_text |-> SubSeq(rule, arrow_pos + 5, Len(rule))],
            "Replace", c, d)

\* The body of the literal's while loop, entered with pos the index found:
\*   result.replace(pos, old_text.length(), new_text);
\*   pos += new_text.length();
replace_step(result, pos, old_text, new_text) ==
  [result |-> string_replace(result, pos, Len(old_text), new_text),
   pos |-> pos + Len(new_text)]

\* while ((pos = result.find(old_text, pos)) != npos) { body }
RECURSIVE replace_loop(_, _, _, _)
replace_loop(result, pos, old_text, new_text) ==
  LET found == string_find(result, old_text, pos) IN
  IF found = npos THEN result
  ELSE LET after == replace_step(result, found, old_text, new_text)
       IN replace_loop(after.result, after.pos, old_text, new_text)

\* The closure of the _spell literal:
\*   to_utf8, the replacement loop, RuneSequence::from_utf8(result).
replace_transform(old_text, new_text, input, u) ==
  LET utf8_input == RuneString_to_utf8(input.runes) IN
  IF utf8_input.threw THEN Raised
  ELSE Returned(RuneString_from_utf8(
         replace_loop(utf8_input.bytes, 0, old_text, new_text), u))

\* The closure of per_rune_spell: RuneSequence result; then
\* result.append(transform(rune)) for each rune; the rune transform of the
\* model returns its argument.
RECURSIVE per_rune_loop(_, _)
per_rune_loop(runes, result) ==
  IF runes = <<>> THEN result
  ELSE per_rune_loop(Tail(runes), RuneString_append_rune(result, Head(runes)))

\* The closure of filter_spell: RuneSequence result; then
\* if (pred(rune)) result.append(rune); the predicate of the model is
\* !rune.is_whitespace().
RECURSIVE filter_spell_loop(_, _)
filter_spell_loop(runes, result) ==
  IF runes = <<>> THEN result
  ELSE filter_spell_loop(Tail(runes),
         IF ~is_whitespace(Head(runes).codepoint)
           THEN RuneString_append_rune(result, Head(runes))
           ELSE result)

\* Spell::operator|(const Spell& next) const: the composed closure, the
\* name name_ + "|" + next.name_, and both members assigned after the
\* constructor.
Spell_pipe(this, next) ==
  [name |-> "Spell",
   transform_ |-> [name |-> "composed_transform",
                   this_transform |-> this.transform_,
                   next_transform |-> next.transform_],
   name_ |-> this.name_ \o "|" \o next.name_,
   is_composition_ |-> TRUE,
   composition_depth_ |-> this.composition_depth_ + next.composition_depth_]

\* Spell::is_identity(): name_ == "Identity" && !is_composition_
Spell_is_identity(this) == this.name_ = "Identity" /\ ~this.is_composition_

RECURSIVE Outcomes(_, _)

\* Mutant of SpellComposition_call: the second spell is applied first.
SpellComposition_call_second_first(first_spell_, second_spell_, input) ==
  UNION {IF intermediate.threw THEN {intermediate}
         ELSE Outcomes(first_spell_, intermediate.value)
         : intermediate \in Outcomes(second_spell_, input)}

\* SpellComposition::operator():
\*   auto intermediate = first_spell_(input); return second_spell_(intermediate);
SpellComposition_call(first_spell_, second_spell_, input) ==
  UNION {IF intermediate.threw THEN {intermediate}
         ELSE Outcomes(second_spell_, intermediate.value)
         : intermediate \in Outcomes(first_spell_, input)}

\* The closure built by Spell::operator|:
\*   auto intermediate = this_transform(input); return next_transform(intermediate);
composed_transform(this_transform, next_transform, input) ==
  UNION {IF intermediate.threw THEN {intermediate}
         ELSE Outcomes(next_transform, intermediate.value)
         : intermediate \in Outcomes(this_transform, input)}

\* s(input) for any callable s.
Outcomes(s, input) ==
  CASE s.name = "SpellComposition" ->
         SpellComposition_call(s.first_spell_, s.second_spell_, input)
    [] s.name = "composed_transform" ->
         composed_transform(s.this_transform, s.next_transform, input)
    [] s.name = "Spell" -> Outcomes(s.transform_, input)
    [] s.name = "identity" -> {Returned(input)}
    [] s.name = "constant" -> {Returned(s.result)}
    [] s.name = "conditional" ->
         IF s.condition = "empty" /\ input.runes = <<>>
           THEN Outcomes(s.if_true, input)
           ELSE Outcomes(s.if_false, input)
    [] s.name = "replace" ->
         {replace_transform(s.old_text, s.new_text, input, u)
            : u \in Indeterminate}
    [] s.name = "per_rune" ->
         {Returned(per_rune_loop(input.runes, DefaultInit(u)))
            : u \in Indeterminate}
    [] s.name = "filter" ->
         {Returned(filter_spell_loop(input.runes, DefaultInit(u)))
            : u \in Indeterminate}
    [] OTHER -> {Invoke(s, input, u) : u \in Indeterminate}

(***************************************************************************)
(* caster<T> (caster.hpp).  A caster object is its data_; threw records    *)
(* that the spell call inside cast raised, so no caster was returned.      *)
(***************************************************************************)

\* make_caster(data)
make_caster(data) == [threw |-> FALSE, data_ |-> data]

\* Mutant of caster_cast: the spell's output is dropped and the returned
\* caster holds the old data_.
caster_cast_keeps_data(c, s, u) ==
  [threw |-> Invoke(s, c.data_, u).threw, data_ |-> c.data_]

\* caster::cast(Spell&&): a new caster built from spell(data_).
caster_cast(c, s, u) ==
  LET o == Invoke(s, c.data_, u) IN [threw |-> o.threw, data_ |-> o.value]

\* caster::result()
caster_result(c) == c.data_

\* operator|(T&& data, Spell&& spell):
\* make_caster(data).cast(spell).result(), as an outcome.
Pipe(data, s, u) ==
  LET c == caster_cast(make_caster(data), s, u) IN
  [threw |-> c.threw, value |-> caster_result(c)]

(***************************************************************************)
(* Inputs                                                                  *)
(***************************************************************************)

\* Codepoints of the input runes: a, B, space, NBSP, 1, U+AC00.
Alphabet == {97, 66, 32, 160, 49, 44032}

\* All sequences over S of length at most n.
SeqsUpTo(S, n) == UNION {[1..k -> S] : k \in 0..n}

\* The sequences handed to spells, built by the initializer-list constructor.
Inputs == {RuneStringOf(s) : s \in SeqsUpTo({Rune(cp) : cp \in Alphabet}, MaxLen)}

(***************************************************************************)
(* Spec: a client holds a sequence, applies one spell to it, and applies   *)
(* the same spell object to the same sequence once more.                   *)
(***************************************************************************)

VARIABLES
  arg,    \* the sequence passed to the spell / wrapped by make_caster
  spell,  \* the spell object called
  ret,    \* the outcome of the first call
  again,  \* the outcome of the second call of the same object on arg
  calls,  \* how many calls were made
  chain,  \* the spells cast so far, in order
  fluent, \* the caster reached by make_caster(arg).cast(..).cast(..)
  piped,  \* the value of the expression arg | s1 | s2 so far
  pipes,  \* how many | operators were evaluated
  abc,    \* the spells A, B, C constructed so far
  form,   \* which composed expression was called on arg
  composed, \* the outcome of that call
  api,    \* the decoder called
  units,  \* the bytes / code units handed to it
  decoded, \* its outcome: the runes returned, or threw
  encoded, \* the outcome of to_utf8() on what was decoded
  codepoint, \* the code point a Rune is constructed from
  constructed, \* the Rune constructed, once made
  utf8rt, \* to_utf8() of the rune and from_utf8 of its bytes
  utf16rt, \* to_utf16() of the rune and from_utf16 of its units
  lhs, \* the left operand of a comparison
  rhs, \* the right operand
  cmp, \* the values of lhs == rhs and lhs < rhs
  twice, \* the outcome of calling the spell on its own first result
  op, \* the RuneString operation called on arg, with its arguments
  opret, \* what the operation returned
  tokens, \* the tokens returned by the tokenizer, once called
  spell1, \* the first spell of a pipeline
  spell2, \* the second spell of the pipeline
  ret1, \* the outcome of the first spell
  ret2, \* the outcome of the second spell on the value of ret1
  built, \* the unified Spell object built so far
  applied, \* the outcome of calling built on arg
  literal \* the _spell literal: its rule, its closure and the replacement loop's position

spellVars == <<spell, ret, again, calls>>

casterVars == <<chain, fluent, piped, pipes>>

composeVars == <<abc, form, composed>>

decodeVars == <<api, units, decoded, encoded>>

runeVars == <<codepoint, constructed, utf8rt, utf16rt>>

compareVars == <<lhs, rhs, cmp>>

idemVars == <<twice>>

seqVars == <<op, opret>>

tokenVars == <<tokens>>

pipelineVars == <<spell1, spell2, ret1, ret2>>

unifiedVars == <<built, applied>>

literalVars == <<literal>>

vars ==
  <<arg, spell, ret, again, calls, chain, fluent, piped, pipes,
    abc, form, composed, api, units, decoded, encoded,
    codepoint, constructed, utf8rt, utf16rt,
    lhs, rhs, cmp,
    twice,
    op, opret,
    tokens,
    spell1, spell2, ret1, ret2,
    built, applied,
    literal>>

\* No spell was called yet.
SpellInit ==
  /\ spell = NoSpell
  /\ ret = Returned(ValueInit)
  /\ again = Returned(ValueInit)
  /\ calls = 0

\* auto c = make_caster(arg); nothing cast or piped yet.
CasterInit ==
  /\ chain = <<>>
  /\ fluent = make_caster(arg)
  /\ piped = Returned(arg)
  /\ pipes = 0

\* No spell was constructed for composition and none was called.
ComposeInit ==
  /\ abc = <<>>
  /\ form = "none"
  /\ composed = Returned(ValueInit)

\* No decoder was called.
DecodeInit ==
  /\ api = "none"
  /\ units = <<>>
  /\ decoded = [threw |-> FALSE, runes |-> <<>>, primary_language |-> "Unknown"]
  /\ encoded = [threw |-> FALSE, bytes |-> <<>>]

\* A round trip that was not made.
NoTrip ==
  [done |-> FALSE, threw |-> FALSE, units |-> <<>>, decoded |-> RuneDefault]

\* No Rune was constructed and none was encoded.
RuneIdle ==
  /\ constructed = [made |-> FALSE, value |-> RuneDefault]
  /\ utf8rt = NoTrip
  /\ utf16rt = NoTrip

\* The spell was not called on its own result.
IdemInit ==
  /\ twice = Returned(ValueInit)

\* The tokenizer was not called.
TokenInit ==
  /\ tokens = [done |-> FALSE, list |-> <<>>]

\* No spell of the pipeline was applied.
PipelineInit ==
  /\ spell1 = NoSpell
  /\ spell2 = NoSpell
  /\ ret1 = Returned(ValueInit)
  /\ ret2 = Returned(ValueInit)

\* No unified Spell was built.
NoUnified == [name |-> "none"]

UnifiedInit ==
  /\ built = NoUnified
  /\ applied = [done |-> FALSE, ret |-> Returned(ValueInit)]

\* No _spell literal was written.
NoLiteral(rule_text) ==
  [pc |-> "rule", rule |-> rule_text, old_text |-> <<>>, new_text |-> <<>>,
   result |-> <<>>, pos |-> 0, ret |-> Returned(ValueInit)]

LiteralInit == literal = NoLiteral(<<>>)

\* No RuneString operation was called.
NoOp == [name |-> "none", prepared |-> FALSE]

SeqInit ==
  /\ op = NoOp
  /\ opret = [index |-> 0, contains |-> FALSE, value |-> ValueInit]

\* Nothing was compared.
CompareInit ==
  /\ lhs = [kind |-> "none", value |-> RuneDefault]
  /\ rhs = [kind |-> "none", value |-> RuneDefault]
  /\ cmp = [done |-> FALSE, eq |-> FALSE, less |-> FALSE]

RuneInit ==
  /\ codepoint = 0
  /\ RuneIdle

Init ==
  /\ arg \in Inputs
  /\ SpellInit
  /\ CasterInit
  /\ ComposeInit
  /\ DecodeInit
  /\ RuneInit
  /\ CompareInit
  /\ IdemInit
  /\ SeqInit
  /\ TokenInit
  /\ PipelineInit
  /\ UnifiedInit
  /\ LiteralInit

\* auto r = WhitespaceNormalizer(c, t)(arg);
CallWhitespaceNormalizer ==
  /\ calls = 0
  /\ \E c \in BOOLEAN, t \in BOOLEAN, u \in Indeterminate :
       /\ spell' = WhitespaceNormalizerSpell(c, t)
       /\ ret' = WhitespaceNormalizer(c, t, arg, u)
  /\ calls' = 1
  /\ UNCHANGED <<arg, again>>
  /\ UNCHANGED casterVars
  /\ UNCHANGED composeVars
  /\ UNCHANGED decodeVars
  /\ UNCHANGED runeVars
  /\ UNCHANGED compareVars
  /\ UNCHANGED idemVars
  /\ UNCHANGED seqVars
  /\ UNCHANGED tokenVars
  /\ UNCHANGED pipelineVars
  /\ UNCHANGED unifiedVars
  /\ UNCHANGED literalVars

\* auto r = CaseConverter(m)(arg);
CallCaseConverter ==
  /\ calls = 0
  /\ \E m \in CaseType, u \in Indeterminate :
       /\ spell' = CaseConverterSpell(m)
       /\ ret' = CaseConverter(m, arg, u)
  /\ calls' = 1
  /\ UNCHANGED <<arg, again>>
  /\ UNCHANGED casterVars
  /\ UNCHANGED composeVars
  /\ UNCHANGED decodeVars
  /\ UNCHANGED runeVars
  /\ UNCHANGED compareVars
  /\ UNCHANGED idemVars
  /\ UNCHANGED seqVars
  /\ UNCHANGED tokenVars
  /\ UNCHANGED pipelineVars
  /\ UNCHANGED unifiedVars
  /\ UNCHANGED literalVars

\* The same spell object is applied to the same sequence a second time.
CallAgain ==
  /\ calls = 1
  /\ \E u \in Indeterminate : again' = Invoke(spell, arg, u)
  /\ calls' = 2
  /\ UNCHANGED <<arg, spell, ret>>
  /\ UNCHANGED casterVars
  /\ UNCHANGED composeVars
  /\ UNCHANGED decodeVars
  /\ UNCHANGED runeVars
  /\ UNCHANGED compareVars
  /\ UNCHANGED idemVars
  /\ UNCHANGED seqVars
  /\ UNCHANGED tokenVars
  /\ UNCHANGED pipelineVars
  /\ UNCHANGED unifiedVars
  /\ UNCHANGED literalVars

\* auto r = TrimEdges()(arg);
CallTrimEdges ==
  /\ calls = 0
  /\ spell' = TrimEdgesSpell
  /\ ret' = TrimEdges(arg)
  /\ calls' = 1
  /\ UNCHANGED <<arg, again>>
  /\ UNCHANGED casterVars
  /\ UNCHANGED composeVars
  /\ UNCHANGED decodeVars
  /\ UNCHANGED runeVars
  /\ UNCHANGED compareVars
  /\ UNCHANGED idemVars
  /\ UNCHANGED seqVars
  /\ UNCHANGED tokenVars
  /\ UNCHANGED pipelineVars
  /\ UNCHANGED unifiedVars
  /\ UNCHANGED literalVars

\* auto rr = spell(r);  the same spell object, called on its first result
CallOnResult ==
  /\ calls = 1
  /\ ~ret.threw
  /\ \E u \in Indeterminate : twice' = Invoke(spell, ret.value, u)
  /\ calls' = 3
  /\ UNCHANGED <<arg, spell, ret, again>>
  /\ UNCHANGED casterVars
  /\ UNCHANGED composeVars
  /\ UNCHANGED decodeVars
  /\ UNCHANGED runeVars
  /\ UNCHANGED compareVars
  /\ UNCHANGED seqVars
  /\ UNCHANGED tokenVars
  /\ UNCHANGED pipelineVars
  /\ UNCHANGED unifiedVars
  /\ UNCHANGED literalVars

Next ==
  \/ CallWhitespaceNormalizer
  \/ CallCaseConverter
  \/ CallTrimEdges
  \/ CallAgain
  \/ CallOnResult

Spec == Init /\ [][Next]_vars

(***************************************************************************)
(* The chaining client (tests/unit/test_spell.cpp, SpellChaining):         *)
(*   auto f = make_caster(arg).cast(s1).cast(s2);                          *)
(*   auto p = arg | s1 | s2;                                               *)
(***************************************************************************)

CasterAlphabet == {97, 66, 32}

CasterInputs ==
  {RuneStringOf(s) : s \in SeqsUpTo({Rune(cp) : cp \in CasterAlphabet}, MaxLen)}

Spells ==
  {WhitespaceNormalizerSpell(c, t) : c \in BOOLEAN, t \in BOOLEAN}
    \cup {CaseConverterSpell(m) : m \in CaseType}

InitCaster ==
  /\ arg \in CasterInputs
  /\ SpellInit
  /\ CasterInit
  /\ ComposeInit
  /\ DecodeInit
  /\ RuneInit
  /\ CompareInit
  /\ IdemInit
  /\ SeqInit
  /\ TokenInit
  /\ PipelineInit
  /\ UnifiedInit
  /\ LiteralInit

\* fluent = std::move(fluent).cast(s);
Cast ==
  /\ Len(chain) < 2
  /\ ~fluent.threw
  /\ \E s \in Spells, u \in Indeterminate :
       /\ fluent' = caster_cast(fluent, s, u)
       /\ chain' = Append(chain, s)
  /\ UNCHANGED <<arg, piped, pipes>>
  /\ UNCHANGED spellVars
  /\ UNCHANGED composeVars
  /\ UNCHANGED decodeVars
  /\ UNCHANGED runeVars
  /\ UNCHANGED compareVars
  /\ UNCHANGED idemVars
  /\ UNCHANGED seqVars
  /\ UNCHANGED tokenVars
  /\ UNCHANGED pipelineVars
  /\ UNCHANGED unifiedVars
  /\ UNCHANGED literalVars

\* piped = piped | s;  with the spells of the chain, left to right
PipeInto ==
  /\ Len(chain) = 2
  /\ pipes < 2
  /\ ~piped.threw
  /\ \E u \in Indeterminate :
       piped' = Pipe(piped.value, chain[pipes + 1], u)
  /\ pipes' = pipes + 1
  /\ UNCHANGED <<arg, chain, fluent>>
  /\ UNCHANGED spellVars
  /\ UNCHANGED composeVars
  /\ UNCHANGED decodeVars
  /\ UNCHANGED runeVars
  /\ UNCHANGED compareVars
  /\ UNCHANGED idemVars
  /\ UNCHANGED seqVars
  /\ UNCHANGED tokenVars
  /\ UNCHANGED pipelineVars
  /\ UNCHANGED unifiedVars
  /\ UNCHANGED literalVars

NextCaster ==
  \/ Cast
  \/ PipeInto

SpecCaster == InitCaster /\ [][NextCaster]_vars

(***************************************************************************)
(* The composing client: three spells A, B, C are constructed, then one    *)
(* of the composed expressions is built and called on arg.                 *)
(***************************************************************************)

ComposeSpells ==
  {WhitespaceNormalizerSpell(TRUE, TRUE), CaseConverterSpell("Title"),
   CaseConverterSpell("Upper")}

InitCompose ==
  /\ arg \in CasterInputs
  /\ SpellInit
  /\ CasterInit
  /\ ComposeInit
  /\ DecodeInit
  /\ RuneInit
  /\ CompareInit
  /\ IdemInit
  /\ SeqInit
  /\ TokenInit
  /\ PipelineInit
  /\ UnifiedInit
  /\ LiteralInit

\* auto A = ...; auto B = ...; auto C = ...;
Construct ==
  /\ Len(abc) < 3
  /\ \E s \in ComposeSpells : abc' = Append(abc, s)
  /\ UNCHANGED <<arg, form, composed>>
  /\ UNCHANGED spellVars
  /\ UNCHANGED casterVars
  /\ UNCHANGED decodeVars
  /\ UNCHANGED runeVars
  /\ UNCHANGED compareVars
  /\ UNCHANGED idemVars
  /\ UNCHANGED seqVars
  /\ UNCHANGED tokenVars
  /\ UNCHANGED pipelineVars
  /\ UNCHANGED unifiedVars
  /\ UNCHANGED literalVars

\* The call e(arg) of the composed expression e, named f.
CallComposed(f, e) ==
  /\ Len(abc) = 3
  /\ form = "none"
  /\ form' = f
  /\ composed' \in Outcomes(e, arg)
  /\ UNCHANGED <<arg, abc>>
  /\ UNCHANGED spellVars
  /\ UNCHANGED casterVars
  /\ UNCHANGED decodeVars
  /\ UNCHANGED runeVars
  /\ UNCHANGED compareVars
  /\ UNCHANGED idemVars
  /\ UNCHANGED seqVars
  /\ UNCHANGED tokenVars
  /\ UNCHANGED pipelineVars
  /\ UNCHANGED unifiedVars
  /\ UNCHANGED literalVars

CallComposeLeft ==
  CallComposed("compose(compose(A,B),C)",
               compose(compose(abc[1], abc[2]), abc[3]))

CallComposeRight ==
  CallComposed("compose(A,compose(B,C))",
               compose(abc[1], compose(abc[2], abc[3])))

CallPipeLeft ==
  CallComposed("(A|B)|C",
               Spell_pipe(Spell_pipe(UnifiedSpell(abc[1]), UnifiedSpell(abc[2])),
                          UnifiedSpell(abc[3])))

CallPipeRight ==
  CallComposed("A|(B|C)",
               Spell_pipe(UnifiedSpell(abc[1]),
                          Spell_pipe(UnifiedSpell(abc[2]), UnifiedSpell(abc[3]))))

NextCompose ==
  \/ Construct
  \/ CallComposeLeft
  \/ CallComposeRight
  \/ CallPipeLeft
  \/ CallPipeRight

SpecCompose == InitCompose /\ [][NextCompose]_vars

(***************************************************************************)
(* The decoding client (tests/unit/test_rune.cpp): one decoder is called   *)
(* on a byte or code-unit string, then to_utf8() on what it returned.      *)
(***************************************************************************)

\* 'A', continuation bytes, overlong leads C0 and E0, the lead of U+00C0,
\* the lead ED of encoded surrogates, the lead F4 and the invalid byte FF.
Utf8Bytes == {65, 128, 160, 192, 195, 224, 237, 244, 255}

\* 'A', a high and a low surrogate, a Hangul syllable.
Utf16Units == {65, 55296, 56320, 44032}

\* 'A', a surrogate code point, U+10FFFF and the first value past it.
Utf32Units == {65, 55296, 1114111, 1114112}

InitDecode ==
  /\ arg = ValueInit
  /\ SpellInit
  /\ CasterInit
  /\ ComposeInit
  /\ DecodeInit
  /\ RuneInit
  /\ CompareInit
  /\ IdemInit
  /\ SeqInit
  /\ TokenInit
  /\ PipelineInit
  /\ UnifiedInit
  /\ LiteralInit

\* The outcome of a single-character decoder.
DecodedRune(d) ==
  [threw |-> d.threw, runes |-> IF d.threw THEN <<>> ELSE <<d.rune>>,
   primary_language |-> "Unknown"]

\* The outcome of a whole-sequence decoder.
DecodedString(r) ==
  [threw |-> FALSE, runes |-> r.runes, primary_language |-> r.primary_language]

\* decoder f was called on text and gave d.
Decode(f, text, d) ==
  /\ api' = f
  /\ units' = text
  /\ decoded' = d
  /\ UNCHANGED <<arg, encoded>>
  /\ UNCHANGED spellVars
  /\ UNCHANGED casterVars
  /\ UNCHANGED composeVars
  /\ UNCHANGED runeVars
  /\ UNCHANGED compareVars
  /\ UNCHANGED idemVars
  /\ UNCHANGED seqVars
  /\ UNCHANGED tokenVars
  /\ UNCHANGED pipelineVars
  /\ UNCHANGED unifiedVars
  /\ UNCHANGED literalVars

\* Rune::from_utf8(text)
CallRuneFromUtf8 ==
  /\ api = "none"
  /\ \E text \in SeqsUpTo(Utf8Bytes, MaxUnits) :
       Decode("Rune::from_utf8", text, DecodedRune(Rune_from_utf8(text)))

\* Rune::from_utf16(text)
CallRuneFromUtf16 ==
  /\ api = "none"
  /\ \E text \in SeqsUpTo(Utf16Units, MaxUnits) :
       Decode("Rune::from_utf16", text, DecodedRune(Rune_from_utf16(text)))

\* RuneString::from_utf8(text)
CallRuneStringFromUtf8 ==
  /\ api = "none"
  /\ \E text \in SeqsUpTo(Utf8Bytes, MaxUnits), u \in Indeterminate :
       Decode("RuneString::from_utf8", text,
              DecodedString(RuneString_from_utf8(text, u)))

\* RuneString::from_utf16(text)
CallRuneStringFromUtf16 ==
  /\ api = "none"
  /\ \E text \in SeqsUpTo(Utf16Units, MaxUnits), u \in Indeterminate :
       Decode("RuneString::from_utf16", text,
              DecodedString(RuneString_from_utf16(text, u)))

\* RuneString::from_utf32(text)
CallRuneStringFromUtf32 ==
  /\ api = "none"
  /\ \E text \in SeqsUpTo(Utf32Units, MaxUnits), u \in Indeterminate :
       Decode("RuneString::from_utf32", text,
              DecodedString(RuneString_from_utf32(text, u)))

\* RuneString{Rune(c1), Rune(c2), ...}: the initializer-list constructor
ConstructFromList ==
  /\ api = "none"
  /\ \E text \in SeqsUpTo(Utf16Units, MaxUnits) :
       Decode("RuneString{...}", text,
              DecodedString(RuneStringOf([i \in 1..Len(text) |-> Rune(text[i])])))

\* to_utf8() on the Rune or RuneString that was returned.
CallToUtf8 ==
  /\ api # "none"
  /\ ~decoded.threw
  /\ encoded = [threw |-> FALSE, bytes |-> <<>>]
  /\ encoded' = RuneString_to_utf8(decoded.runes)
  /\ UNCHANGED <<arg, api, units, decoded>>
  /\ UNCHANGED spellVars
  /\ UNCHANGED casterVars
  /\ UNCHANGED composeVars
  /\ UNCHANGED runeVars
  /\ UNCHANGED compareVars
  /\ UNCHANGED idemVars
  /\ UNCHANGED seqVars
  /\ UNCHANGED tokenVars
  /\ UNCHANGED pipelineVars
  /\ UNCHANGED unifiedVars
  /\ UNCHANGED literalVars

NextDecode ==
  \/ CallRuneFromUtf8
  \/ CallRuneFromUtf16
  \/ CallRuneStringFromUtf8
  \/ CallRuneStringFromUtf16
  \/ CallRuneStringFromUtf32
  \/ ConstructFromList
  \/ CallToUtf8

SpecDecode == InitDecode /\ [][NextDecode]_vars

(***************************************************************************)
(* The Rune client (tests/unit/test_rune.cpp): a Rune is constructed from  *)
(* a code point, encoded, and the encoding is decoded again.               *)
(***************************************************************************)

\* Where the encodings and the block table change: the 1-, 2-, 3- and
\* 4-byte limits, the surrogates, the end of the code space, and the
\* blocks that carry a language.
Boundaries ==
  {0, 48, 65, 97, 128, 592, 1024, 1280, 1424, 1536, 1792, 2048, 3584, 3712,
   4352, 4608, 7680, 7936, 12352, 12592, 12688, 12784, 13312, 19904, 19968,
   40960, 44032, 55216, 55296, 57344, 65536, 131072, 173792, 1114112}

CodepointSample ==
  {c \in UNION {(b - Window)..(b + Window) : b \in Boundaries} : c >= 0}
    \cup {k * SampleStride : k \in 0..(1114111 \div SampleStride)}

\* The translation unit's definition of Rune::detect_language.
Definitions == {"rune.cpp", "rune.hpp"}

InitRune ==
  /\ arg = ValueInit
  /\ SpellInit
  /\ CasterInit
  /\ ComposeInit
  /\ DecodeInit
  /\ CompareInit
  /\ IdemInit
  /\ SeqInit
  /\ TokenInit
  /\ PipelineInit
  /\ UnifiedInit
  /\ LiteralInit
  /\ codepoint \in CodepointSample
  /\ RuneIdle

\* Rune r(codepoint); the definition of detect_language that the
\* constructor reaches is the one of rune.cpp or the inline one of rune.hpp.
ConstructRune ==
  /\ ~constructed.made
  /\ \E d \in Definitions :
       constructed' =
         [made |-> TRUE,
          value |-> RuneWithLanguage(codepoint,
                      IF d = "rune.cpp" THEN detect_language(codepoint)
                      ELSE detect_language_inline(codepoint))]
  /\ UNCHANGED <<arg, codepoint, utf8rt, utf16rt>>
  /\ UNCHANGED spellVars
  /\ UNCHANGED casterVars
  /\ UNCHANGED composeVars
  /\ UNCHANGED decodeVars
  /\ UNCHANGED compareVars
  /\ UNCHANGED idemVars
  /\ UNCHANGED seqVars
  /\ UNCHANGED tokenVars
  /\ UNCHANGED pipelineVars
  /\ UNCHANGED unifiedVars
  /\ UNCHANGED literalVars

\* Rune::from_utf8(rune.to_utf8())
RoundTripUtf8 ==
  /\ constructed.made
  /\ ~utf8rt.done
  /\ utf8rt' =
       LET e == Rune_to_utf8(constructed.value) IN
       IF e.threw
         THEN [done |-> TRUE, threw |-> TRUE, units |-> <<>>,
               decoded |-> RuneDefault]
         ELSE LET d == Rune_from_utf8(e.bytes) IN
              [done |-> TRUE, threw |-> d.threw, units |-> e.bytes,
               decoded |-> d.rune]
  /\ UNCHANGED <<arg, codepoint, constructed, utf16rt>>
  /\ UNCHANGED spellVars
  /\ UNCHANGED casterVars
  /\ UNCHANGED composeVars
  /\ UNCHANGED decodeVars
  /\ UNCHANGED compareVars
  /\ UNCHANGED idemVars
  /\ UNCHANGED seqVars
  /\ UNCHANGED tokenVars
  /\ UNCHANGED pipelineVars
  /\ UNCHANGED unifiedVars
  /\ UNCHANGED literalVars

\* Rune::from_utf16(rune.to_utf16())
RoundTripUtf16 ==
  /\ constructed.made
  /\ ~utf16rt.done
  /\ utf16rt' =
       LET e == Rune_to_utf16(constructed.value) IN
       IF e.threw
         THEN [done |-> TRUE, threw |-> TRUE, units |-> <<>>,
               decoded |-> RuneDefault]
         ELSE LET d == Rune_from_utf16(e.units) IN
              [done |-> TRUE, threw |-> d.threw, units |-> e.units,
               decoded |-> d.rune]
  /\ UNCHANGED <<arg, codepoint, constructed, utf8rt>>
  /\ UNCHANGED spellVars
  /\ UNCHANGED casterVars
  /\ UNCHANGED composeVars
  /\ UNCHANGED decodeVars
  /\ UNCHANGED compareVars
  /\ UNCHANGED idemVars
  /\ UNCHANGED seqVars
  /\ UNCHANGED tokenVars
  /\ UNCHANGED pipelineVars
  /\ UNCHANGED unifiedVars
  /\ UNCHANGED literalVars

NextRune ==
  \/ ConstructRune
  \/ RoundTripUtf8
  \/ RoundTripUtf16

SpecRune == InitRune /\ [][NextRune]_vars

(***************************************************************************)
(* The comparing client (tests/unit/test_rune.cpp, ComparisonOperators):   *)
(* two Runes or two RuneStrings are constructed and compared.              *)
(***************************************************************************)

ComparedRunes ==
  {RuneWithPhoneme(c, l, p) :
     c \in {65, 66}, l \in {"English", "French"}, p \in {"", "ga"}}

ComparedStrings ==
  {[runes |-> r, primary_language |-> l] :
     r \in SeqsUpTo({RuneWithLanguage(65, "English"),
                     RuneWithLanguage(65, "French"),
                     RuneWithLanguage(66, "English")}, MaxCompared),
     l \in {"Unknown", "English"}}

InitCompare ==
  /\ arg = ValueInit
  /\ SpellInit
  /\ CasterInit
  /\ ComposeInit
  /\ DecodeInit
  /\ RuneInit
  /\ CompareInit
  /\ IdemInit
  /\ SeqInit
  /\ TokenInit
  /\ PipelineInit
  /\ UnifiedInit
  /\ LiteralInit

\* Rune a(...); Rune b(...);
ConstructRunes ==
  /\ lhs.kind = "none"
  /\ \E a \in ComparedRunes, b \in ComparedRunes :
       /\ lhs' = [kind |-> "Rune", value |-> a]
       /\ rhs' = [kind |-> "Rune", value |-> b]
  /\ UNCHANGED <<arg, cmp>>
  /\ UNCHANGED spellVars
  /\ UNCHANGED casterVars
  /\ UNCHANGED composeVars
  /\ UNCHANGED decodeVars
  /\ UNCHANGED runeVars
  /\ UNCHANGED idemVars
  /\ UNCHANGED seqVars
  /\ UNCHANGED tokenVars
  /\ UNCHANGED pipelineVars
  /\ UNCHANGED unifiedVars
  /\ UNCHANGED literalVars

\* RuneString a = ...; RuneString b = ...;
ConstructStrings ==
  /\ lhs.kind = "none"
  /\ \E a \in ComparedStrings, b \in ComparedStrings :
       /\ lhs' = [kind |-> "RuneString", value |-> a]
       /\ rhs' = [kind |-> "RuneString", value |-> b]
  /\ UNCHANGED <<arg, cmp>>
  /\ UNCHANGED spellVars
  /\ UNCHANGED casterVars
  /\ UNCHANGED composeVars
  /\ UNCHANGED decodeVars
  /\ UNCHANGED runeVars
  /\ UNCHANGED idemVars
  /\ UNCHANGED seqVars
  /\ UNCHANGED tokenVars
  /\ UNCHANGED pipelineVars
  /\ UNCHANGED unifiedVars
  /\ UNCHANGED literalVars

\* a == b; a < b;  for two Runes
CompareRunes ==
  /\ lhs.kind = "Rune"
  /\ ~cmp.done
  /\ cmp' = [done |-> TRUE, eq |-> Rune_eq(lhs.value, rhs.value),
             less |-> Rune_less(lhs.value, rhs.value)]
  /\ UNCHANGED <<arg, lhs, rhs>>
  /\ UNCHANGED spellVars
  /\ UNCHANGED casterVars
  /\ UNCHANGED composeVars
  /\ UNCHANGED decodeVars
  /\ UNCHANGED runeVars
  /\ UNCHANGED idemVars
  /\ UNCHANGED seqVars
  /\ UNCHANGED tokenVars
  /\ UNCHANGED pipelineVars
  /\ UNCHANGED unifiedVars
  /\ UNCHANGED literalVars

\* a == b; a < b;  for two RuneStrings
CompareStrings ==
  /\ lhs.kind = "RuneString"
  /\ ~cmp.done
  /\ cmp' = [done |-> TRUE, eq |-> RuneString_eq(lhs.value, rhs.value),
             less |-> RuneString_less(lhs.value, rhs.value)]
  /\ UNCHANGED <<arg, lhs, rhs>>
  /\ UNCHANGED spellVars
  /\ UNCHANGED casterVars
  /\ UNCHANGED composeVars
  /\ UNCHANGED decodeVars
  /\ UNCHANGED runeVars
  /\ UNCHANGED idemVars
  /\ UNCHANGED seqVars
  /\ UNCHANGED tokenVars
  /\ UNCHANGED pipelineVars
  /\ UNCHANGED unifiedVars
  /\ UNCHANGED literalVars

NextCompare ==
  \/ ConstructRunes
  \/ ConstructStrings
  \/ CompareRunes
  \/ CompareStrings

SpecCompare == InitCompare /\ [][NextCompare]_vars

(***************************************************************************)
(* The RuneString client: a sequence is constructed, its primary language  *)
(* may be set or it may be replaced by a hinted decoding, and then one of  *)
(* substr, find, contains and append is called on it.                      *)
(***************************************************************************)

SeqInputs ==
  {RuneStringOf(r) : r \in SeqsUpTo({Rune(97), Rune(66), Rune(32)}, MaxLen)}

\* The runes searched for and appended: "a" with two different hints, "B".
NeedleRunes == {Rune(97), RuneWithLanguage(97, "French"), Rune(66)}

Needles ==
  {RuneStringOf(r) : r \in SeqsUpTo(NeedleRunes, MaxNeedle)}

\* "a", "1" and the invalid byte FF.
HintedTexts == SeqsUpTo({97, 49, 255}, MaxNeedle)

HintLanguages == {"French", "Korean"}

\* Positions and lengths, up to one past the longest sequence.
Positions == 0..(MaxLen + 1)

InitSeq ==
  /\ arg \in SeqInputs
  /\ SpellInit
  /\ CasterInit
  /\ ComposeInit
  /\ DecodeInit
  /\ RuneInit
  /\ CompareInit
  /\ IdemInit
  /\ SeqInit
  /\ TokenInit
  /\ PipelineInit
  /\ UnifiedInit
  /\ LiteralInit

\* op was called on arg, returned r and left the sequence as s.
Called(o, r, s) ==
  /\ op.name \in {"none", "from_utf8"}
  /\ op' = o
  /\ opret' = r
  /\ arg' = s
  /\ UNCHANGED spellVars
  /\ UNCHANGED casterVars
  /\ UNCHANGED composeVars
  /\ UNCHANGED decodeVars
  /\ UNCHANGED runeVars
  /\ UNCHANGED compareVars
  /\ UNCHANGED idemVars
  /\ UNCHANGED tokenVars
  /\ UNCHANGED pipelineVars
  /\ UNCHANGED unifiedVars
  /\ UNCHANGED literalVars

\* arg.set_primary_language(lang);
SetPrimaryLanguage ==
  /\ ~op.prepared
  /\ \E lang \in HintLanguages :
       Called([name |-> "none", prepared |-> TRUE], opret,
              RuneString_set_primary_language(arg, lang))

\* RuneString arg = RuneString::from_utf8(text, lang); in place of the
\* empty sequence.
CallFromUtf8WithLanguage ==
  /\ ~op.prepared
  /\ arg.runes = <<>>
  /\ \E text \in HintedTexts, lang \in HintLanguages, u \in Indeterminate :
       Called([name |-> "from_utf8", prepared |-> TRUE, text |-> text,
               lang |-> lang],
              opret, RuneString_from_utf8_lang(text, lang, u))

\* arg.substr(start, length), and arg.substr(start) with length = npos
CallSubstr ==
  \E start \in Positions, length \in Positions \cup {npos} :
    Called([name |-> "substr", prepared |-> TRUE, start |-> start,
            length |-> length, before |-> arg],
           [index |-> 0, contains |-> FALSE,
            value |-> RuneString_substr(arg, start, length)],
           arg)

\* arg.find(rune, pos); arg.contains(rune);
CallFindRune ==
  \E r \in NeedleRunes, pos \in Positions :
    Called([name |-> "find(Rune)", prepared |-> TRUE, needle |-> r,
            pos |-> pos, before |-> arg],
           [index |-> RuneString_find_rune(arg, r, pos),
            contains |-> RuneString_contains_rune(arg, r),
            value |-> ValueInit],
           arg)

\* arg.find(str, pos); arg.contains(str);
CallFind ==
  \E str \in Needles, pos \in Positions :
    Called([name |-> "find(RuneString)", prepared |-> TRUE, needle |-> str,
            pos |-> pos, before |-> arg],
           [index |-> RuneString_find(arg, str, pos),
            contains |-> RuneString_contains(arg, str),
            value |-> ValueInit],
           arg)

\* arg.append(rune);
CallAppendRune ==
  \E r \in NeedleRunes :
    Called([name |-> "append(Rune)", prepared |-> TRUE, before |-> arg],
           opret, RuneString_append_rune(arg, r))

\* arg.append(other);
CallAppend ==
  \E other \in Needles :
    Called([name |-> "append(RuneString)", prepared |-> TRUE, before |-> arg],
           opret, RuneString_append(arg, other))

\* arg.append(utf8);
CallAppendUtf8 ==
  \E text \in HintedTexts, u \in Indeterminate :
    Called([name |-> "append(utf8)", prepared |-> TRUE, before |-> arg],
           opret, RuneString_append_utf8(arg, text, u))

NextSeq ==
  \/ SetPrimaryLanguage
  \/ CallFromUtf8WithLanguage
  \/ CallSubstr
  \/ CallFindRune
  \/ CallFind
  \/ CallAppendRune
  \/ CallAppend
  \/ CallAppendUtf8

SpecSeq == InitSeq /\ [][NextSeq]_vars

(***************************************************************************)
(* The LanguageDetector client: the spell is called once on a sequence.    *)
(***************************************************************************)

\* "a", "1", a space, Hangul GA, Hiragana A, the ideograph U+6F22.
DetectAlphabet == {97, 49, 32, 44032, 12354, 28450}

DetectInputs ==
  {RuneStringOf(r) : r \in SeqsUpTo({Rune(c) : c \in DetectAlphabet}, MaxLen)}

InitDetect ==
  /\ arg \in DetectInputs
  /\ SpellInit
  /\ CasterInit
  /\ ComposeInit
  /\ DecodeInit
  /\ RuneInit
  /\ CompareInit
  /\ IdemInit
  /\ SeqInit
  /\ TokenInit
  /\ PipelineInit
  /\ UnifiedInit
  /\ LiteralInit

\* LanguageDetector{}(arg)
CallLanguageDetector ==
  /\ ~op.prepared
  /\ \E detected_language \in detect_language_from_script(arg) :
       Called([name |-> "LanguageDetector", prepared |-> TRUE, before |-> arg],
              [index |-> 0, contains |-> FALSE,
               value |-> LanguageDetector(arg, detected_language).value],
              arg)

NextDetect ==
  \/ CallLanguageDetector

SpecDetect == InitDetect /\ [][NextDetect]_vars

(***************************************************************************)
(* The filter client: one of PunctuationFilter, UnicodeNormalizer and      *)
(* WhitespaceTokenizer is called on a sequence; a sequence spell may then  *)
(* be called on its own result.                                            *)
(***************************************************************************)

\* "a", a space, a tab, "!", e with acute (two bytes), Hangul GA (three).
FilterAlphabet == {97, 32, 9, 33, 233, 44032}

FilterInputs ==
  {RuneStringOf(r) : r \in SeqsUpTo({Rune(c) : c \in FilterAlphabet}, MaxLen)}

InitFilter ==
  /\ arg \in FilterInputs
  /\ SpellInit
  /\ CasterInit
  /\ ComposeInit
  /\ DecodeInit
  /\ RuneInit
  /\ CompareInit
  /\ IdemInit
  /\ SeqInit
  /\ TokenInit
  /\ PipelineInit
  /\ UnifiedInit
  /\ LiteralInit

\* auto r = PunctuationFilter(remove)(arg);
CallPunctuationFilter ==
  /\ calls = 0
  /\ ~tokens.done
  /\ \E remove \in BOOLEAN, u \in Indeterminate :
       /\ spell' = PunctuationFilterSpell(remove)
       /\ ret' = PunctuationFilter(remove, arg, u)
  /\ calls' = 1
  /\ UNCHANGED <<arg, again>>
  /\ UNCHANGED casterVars
  /\ UNCHANGED composeVars
  /\ UNCHANGED decodeVars
  /\ UNCHANGED runeVars
  /\ UNCHANGED compareVars
  /\ UNCHANGED idemVars
  /\ UNCHANGED seqVars
  /\ UNCHANGED tokenVars
  /\ UNCHANGED pipelineVars
  /\ UNCHANGED unifiedVars
  /\ UNCHANGED literalVars

\* auto r = UnicodeNormalizer(form)(arg);
CallUnicodeNormalizer ==
  /\ calls = 0
  /\ ~tokens.done
  /\ \E nf \in NormalizationForm, u \in Indeterminate :
       /\ spell' = UnicodeNormalizerSpell(nf)
       /\ ret' = UnicodeNormalizer(nf, arg, u)
  /\ calls' = 1
  /\ UNCHANGED <<arg, again>>
  /\ UNCHANGED casterVars
  /\ UNCHANGED composeVars
  /\ UNCHANGED decodeVars
  /\ UNCHANGED runeVars
  /\ UNCHANGED compareVars
  /\ UNCHANGED idemVars
  /\ UNCHANGED seqVars
  /\ UNCHANGED tokenVars
  /\ UNCHANGED pipelineVars
  /\ UNCHANGED unifiedVars
  /\ UNCHANGED literalVars

\* auto t = WhitespaceTokenizer{}(arg);
CallWhitespaceTokenizer ==
  /\ calls = 0
  /\ ~tokens.done
  /\ \E u \in Indeterminate :
       tokens' = [done |-> TRUE, list |-> WhitespaceTokenizer(arg, u)]
  /\ UNCHANGED <<arg>>
  /\ UNCHANGED spellVars
  /\ UNCHANGED casterVars
  /\ UNCHANGED composeVars
  /\ UNCHANGED decodeVars
  /\ UNCHANGED runeVars
  /\ UNCHANGED compareVars
  /\ UNCHANGED idemVars
  /\ UNCHANGED seqVars
  /\ UNCHANGED pipelineVars
  /\ UNCHANGED unifiedVars
  /\ UNCHANGED literalVars

NextFilter ==
  \/ CallPunctuationFilter
  \/ CallUnicodeNormalizer
  \/ CallWhitespaceTokenizer
  \/ CallOnResult

SpecFilter == InitFilter /\ [][NextFilter]_vars

(***************************************************************************)
(* The pipeline client: two sequence spells are applied one after the      *)
(* other, as in arg | s1 | s2, and the value reached may be tokenized.     *)
(***************************************************************************)

\* "a", "B", a space, "!", and an "a" carrying a hint and a phoneme of its
\* own.
PipelineRunes ==
  {Rune(97), Rune(66), Rune(32), Rune(33), RuneWithPhoneme(97, "French", "ga")}

\* Sequences with the voted primary language, and the same sequences after
\* set_primary_language(Korean).
PipelineInputs ==
  LET voted == {RuneStringOf(r) : r \in SeqsUpTo(PipelineRunes, MaxPipeLen)}
  IN voted \cup {RuneString_set_primary_language(v, "Korean") : v \in voted}

PipelineSpells ==
  {WhitespaceNormalizerSpell(c, t) : c \in BOOLEAN, t \in BOOLEAN}
    \cup {CaseConverterSpell(m) : m \in CaseType}
    \cup {TrimEdgesSpell}
    \cup {PunctuationFilterSpell(remove) : remove \in BOOLEAN}
    \cup {UnicodeNormalizerSpell(nf) : nf \in NormalizationForm}
    \cup {LanguageDetectorSpell}

\* The outcomes a call s(input) can have: one per value of an indeterminate
\* primary language, or per language the detector's vote can return.
InvokeAny(s, input) ==
  IF s.name = "LanguageDetector"
    THEN {LanguageDetector(input, l) : l \in detect_language_from_script(input)}
    ELSE {Invoke(s, input, u) : u \in Indeterminate}

InitPipeline ==
  /\ arg \in PipelineInputs
  /\ SpellInit
  /\ CasterInit
  /\ ComposeInit
  /\ DecodeInit
  /\ RuneInit
  /\ CompareInit
  /\ IdemInit
  /\ SeqInit
  /\ TokenInit
  /\ PipelineInit
  /\ UnifiedInit
  /\ LiteralInit

\* auto r1 = arg | s1;
ApplyFirst ==
  /\ spell1.name = "none"
  /\ ~tokens.done
  /\ \E s \in PipelineSpells :
       /\ spell1' = s
       /\ ret1' \in InvokeAny(s, arg)
  /\ UNCHANGED <<arg, spell2, ret2>>
  /\ UNCHANGED spellVars
  /\ UNCHANGED casterVars
  /\ UNCHANGED composeVars
  /\ UNCHANGED decodeVars
  /\ UNCHANGED runeVars
  /\ UNCHANGED compareVars
  /\ UNCHANGED idemVars
  /\ UNCHANGED seqVars
  /\ UNCHANGED tokenVars
  /\ UNCHANGED unifiedVars
  /\ UNCHANGED literalVars

\* auto r2 = r1 | s2;
ApplySecond ==
  /\ spell1.name # "none"
  /\ spell2.name = "none"
  /\ ~ret1.threw
  /\ ~tokens.done
  /\ \E s \in PipelineSpells :
       /\ spell2' = s
       /\ ret2' \in InvokeAny(s, ret1.value)
  /\ UNCHANGED <<arg, spell1, ret1>>
  /\ UNCHANGED spellVars
  /\ UNCHANGED casterVars
  /\ UNCHANGED composeVars
  /\ UNCHANGED decodeVars
  /\ UNCHANGED runeVars
  /\ UNCHANGED compareVars
  /\ UNCHANGED idemVars
  /\ UNCHANGED seqVars
  /\ UNCHANGED tokenVars
  /\ UNCHANGED unifiedVars
  /\ UNCHANGED literalVars

\* The value the pipeline has reached.
PipelineValue ==
  IF spell1.name = "none" THEN Returned(arg)
  ELSE IF spell2.name = "none" THEN ret1
  ELSE ret2

\* auto t = WhitespaceTokenizer{}(r);
TokenizeResult ==
  /\ ~tokens.done
  /\ ~PipelineValue.threw
  /\ \E u \in Indeterminate :
       tokens' =
         [done |-> TRUE, list |-> WhitespaceTokenizer(PipelineValue.value, u)]
  /\ UNCHANGED <<arg>>
  /\ UNCHANGED pipelineVars
  /\ UNCHANGED spellVars
  /\ UNCHANGED casterVars
  /\ UNCHANGED composeVars
  /\ UNCHANGED decodeVars
  /\ UNCHANGED runeVars
  /\ UNCHANGED compareVars
  /\ UNCHANGED idemVars
  /\ UNCHANGED seqVars
  /\ UNCHANGED unifiedVars
  /\ UNCHANGED literalVars

NextPipeline ==
  \/ ApplyFirst
  \/ ApplySecond
  \/ TokenizeResult

SpecPipeline == InitPipeline /\ [][NextPipeline]_vars

(***************************************************************************)
(* The unified Spell client: a Spell object is built in one of the ways    *)
(* the class offers, piped with further simple spells on either side, and  *)
(* called on arg.                                                          *)
(***************************************************************************)

UnifiedInputs ==
  {RuneStringOf(r) : r \in SeqsUpTo({Rune(97), Rune(32)}, MaxPipeLen)}

\* The user's transformation, a functor that upper-cases its argument.
UserTransform == CaseConverterSpell("Upper")

\* The names a user gives to a spell.
FunctionNames == {"CustomSpell", "Identity"}

LambdaNames == {"LambdaSpell", "Identity"}

\* The rules of the _spell literals: "a -> b" and "ab".
UnifiedRules == {<<97, 32, 45, 62, 32, 98>>, <<97, 98>>}

\* Spell() and Spell::identity()
IdentitySpells == {Spell_default, Spell_identity}

\* Spell(f, name) for a std::function f
FunctionSpells == {Spell_from_function(UserTransform, n) : n \in FunctionNames}

\* Spell(lambda, name)
LambdaSpells ==
  {Spell_from_functor(UserTransform, n, c, d)
     : n \in LambdaNames, c \in BOOLEAN, d \in IndeterminateDepth}

\* make_spell(lambda), per_rune_spell(f), filter_spell(pred)
FactorySpells ==
  UNION {{make_spell(UserTransform, "CustomSpell", c, d),
          per_rune_spell("same", c, d),
          filter_spell("not_whitespace", c, d)}
           : c \in BOOLEAN, d \in IndeterminateDepth}

\* Spell::constant({Rune(U'x')}) and
\* Spell::conditional(empty, Spell::identity(), Spell(f))
StaticSpells ==
  UNION {{Spell_constant(RuneStringOf(<<Rune(120)>>), c, d),
          Spell_conditional("empty", Spell_identity,
                            Spell_from_function(UserTransform, "CustomSpell"),
                            c, d)}
           : c \in BOOLEAN, d \in IndeterminateDepth}

\* "a -> b"_spell and "ab"_spell
LiteralSpells ==
  {literal_spell(r, c, d)
     : r \in UnifiedRules, c \in BOOLEAN, d \in IndeterminateDepth}

SimpleSpells ==
  IdentitySpells \cup FunctionSpells \cup LambdaSpells \cup FactorySpells
    \cup StaticSpells \cup LiteralSpells

\* The number of simple spells a transform was piped from.
RECURSIVE SimpleCount(_)
SimpleCount(transform) ==
  IF transform.name = "composed_transform"
    THEN SimpleCount(transform.this_transform)
           + SimpleCount(transform.next_transform)
  ELSE 1

InitUnified ==
  /\ arg \in UnifiedInputs
  /\ SpellInit
  /\ CasterInit
  /\ ComposeInit
  /\ DecodeInit
  /\ RuneInit
  /\ CompareInit
  /\ IdemInit
  /\ SeqInit
  /\ TokenInit
  /\ PipelineInit
  /\ UnifiedInit
  /\ LiteralInit

\* Spell s;  or  Spell s = Spell::identity();
ConstructDefault ==
  /\ built = NoUnified
  /\ built' \in IdentitySpells
  /\ UNCHANGED <<arg, applied>>
  /\ UNCHANGED spellVars
  /\ UNCHANGED casterVars
  /\ UNCHANGED composeVars
  /\ UNCHANGED decodeVars
  /\ UNCHANGED runeVars
  /\ UNCHANGED compareVars
  /\ UNCHANGED idemVars
  /\ UNCHANGED seqVars
  /\ UNCHANGED tokenVars
  /\ UNCHANGED pipelineVars
  /\ UNCHANGED literalVars

\* Spell s(f, name);  with  Spell::transform_function f
ConstructFromFunction ==
  /\ built = NoUnified
  /\ built' \in FunctionSpells
  /\ UNCHANGED <<arg, applied>>
  /\ UNCHANGED spellVars
  /\ UNCHANGED casterVars
  /\ UNCHANGED composeVars
  /\ UNCHANGED decodeVars
  /\ UNCHANGED runeVars
  /\ UNCHANGED compareVars
  /\ UNCHANGED idemVars
  /\ UNCHANGED seqVars
  /\ UNCHANGED tokenVars
  /\ UNCHANGED pipelineVars
  /\ UNCHANGED literalVars

\* Spell s(lambda, name);
ConstructFromLambda ==
  /\ built = NoUnified
  /\ built' \in LambdaSpells
  /\ UNCHANGED <<arg, applied>>
  /\ UNCHANGED spellVars
  /\ UNCHANGED casterVars
  /\ UNCHANGED composeVars
  /\ UNCHANGED decodeVars
  /\ UNCHANGED runeVars
  /\ UNCHANGED compareVars
  /\ UNCHANGED idemVars
  /\ UNCHANGED seqVars
  /\ UNCHANGED tokenVars
  /\ UNCHANGED pipelineVars
  /\ UNCHANGED literalVars

\* auto s = make_spell(..);  per_rune_spell(..);  filter_spell(..);
ConstructByFactory ==
  /\ built = NoUnified
  /\ built' \in FactorySpells
  /\ UNCHANGED <<arg, applied>>
  /\ UNCHANGED spellVars
  /\ UNCHANGED casterVars
  /\ UNCHANGED composeVars
  /\ UNCHANGED decodeVars
  /\ UNCHANGED runeVars
  /\ UNCHANGED compareVars
  /\ UNCHANGED idemVars
  /\ UNCHANGED seqVars
  /\ UNCHANGED tokenVars
  /\ UNCHANGED pipelineVars
  /\ UNCHANGED literalVars

\* auto s = Spell::constant(..);  Spell::conditional(..);
ConstructStatic ==
  /\ built = NoUnified
  /\ built' \in StaticSpells
  /\ UNCHANGED <<arg, applied>>
  /\ UNCHANGED spellVars
  /\ UNCHANGED casterVars
  /\ UNCHANGED composeVars
  /\ UNCHANGED decodeVars
  /\ UNCHANGED runeVars
  /\ UNCHANGED compareVars
  /\ UNCHANGED idemVars
  /\ UNCHANGED seqVars
  /\ UNCHANGED tokenVars
  /\ UNCHANGED pipelineVars
  /\ UNCHANGED literalVars

\* auto s = "a -> b"_spell;
ConstructLiteral ==
  /\ built = NoUnified
  /\ built' \in LiteralSpells
  /\ UNCHANGED <<arg, applied>>
  /\ UNCHANGED spellVars
  /\ UNCHANGED casterVars
  /\ UNCHANGED composeVars
  /\ UNCHANGED decodeVars
  /\ UNCHANGED runeVars
  /\ UNCHANGED compareVars
  /\ UNCHANGED idemVars
  /\ UNCHANGED seqVars
  /\ UNCHANGED tokenVars
  /\ UNCHANGED pipelineVars
  /\ UNCHANGED literalVars

\* built = built | next;  for a simple spell next
PipeRight ==
  /\ built # NoUnified
  /\ ~applied.done
  /\ SimpleCount(built.transform_) < 3
  /\ \E next \in SimpleSpells : built' = Spell_pipe(built, next)
  /\ UNCHANGED <<arg, applied>>
  /\ UNCHANGED spellVars
  /\ UNCHANGED casterVars
  /\ UNCHANGED composeVars
  /\ UNCHANGED decodeVars
  /\ UNCHANGED runeVars
  /\ UNCHANGED compareVars
  /\ UNCHANGED idemVars
  /\ UNCHANGED seqVars
  /\ UNCHANGED tokenVars
  /\ UNCHANGED pipelineVars
  /\ UNCHANGED literalVars

\* built = prev | built;  for a simple spell prev
PipeLeft ==
  /\ built # NoUnified
  /\ ~applied.done
  /\ SimpleCount(built.transform_) < 3
  /\ \E prev \in SimpleSpells : built' = Spell_pipe(prev, built)
  /\ UNCHANGED <<arg, applied>>
  /\ UNCHANGED spellVars
  /\ UNCHANGED casterVars
  /\ UNCHANGED composeVars
  /\ UNCHANGED decodeVars
  /\ UNCHANGED runeVars
  /\ UNCHANGED compareVars
  /\ UNCHANGED idemVars
  /\ UNCHANGED seqVars
  /\ UNCHANGED tokenVars
  /\ UNCHANGED pipelineVars
  /\ UNCHANGED literalVars

\* auto r = built(arg);
CallBuilt ==
  /\ built # NoUnified
  /\ ~applied.done
  /\ \E r \in Outcomes(built, arg) : applied' = [done |-> TRUE, ret |-> r]
  /\ UNCHANGED <<arg, built>>
  /\ UNCHANGED spellVars
  /\ UNCHANGED casterVars
  /\ UNCHANGED composeVars
  /\ UNCHANGED decodeVars
  /\ UNCHANGED runeVars
  /\ UNCHANGED compareVars
  /\ UNCHANGED idemVars
  /\ UNCHANGED seqVars
  /\ UNCHANGED tokenVars
  /\ UNCHANGED pipelineVars
  /\ UNCHANGED literalVars

NextUnified ==
  \/ ConstructDefault
  \/ ConstructFromFunction
  \/ ConstructFromLambda
  \/ ConstructByFactory
  \/ ConstructStatic
  \/ ConstructLiteral
  \/ PipeRight
  \/ PipeLeft
  \/ CallBuilt

SpecUnified == InitUnified /\ [][NextUnified]_vars

(***************************************************************************)
(* The _spell literal client: a literal is written, the spell it returns   *)
(* is called on arg, and the closure's replacement loop runs one step at   *)
(* a time: pc "find" is the loop condition, pc "replace" the loop body.    *)
(***************************************************************************)

\* The longest std::string the program's memory holds: a replace that
\* would exceed it raises (std::length_error, std::bad_alloc).
MaxText == 6

LiteralInputs ==
  {RuneStringOf(r) : r \in SeqsUpTo({Rune(97), Rune(98)}, MaxNeedle)}

\* "a -> aa", "a -> b", "aa -> a", "a -> ", " -> x", " -> " and "ab".
LiteralRules ==
  {<<97, 32, 45, 62, 32, 97, 97>>, <<97, 32, 45, 62, 32, 98>>,
   <<97, 97, 32, 45, 62, 32, 97>>, <<97, 32, 45, 62, 32>>,
   <<32, 45, 62, 32, 120>>, <<32, 45, 62, 32>>, <<97, 98>>}

InitLiteral ==
  /\ arg \in LiteralInputs
  /\ SpellInit
  /\ CasterInit
  /\ ComposeInit
  /\ DecodeInit
  /\ RuneInit
  /\ CompareInit
  /\ IdemInit
  /\ SeqInit
  /\ TokenInit
  /\ PipelineInit
  /\ UnifiedInit
  /\ \E r \in LiteralRules : literal = NoLiteral(r)

\* auto s = "..."_spell;  the rule is parsed and the closure captures
\* old_text and new_text, or Spell::identity() is returned.
WriteLiteral ==
  /\ literal.pc = "rule"
  /\ \E c \in BOOLEAN, d \in IndeterminateDepth :
       LET s == literal_spell(literal.rule, c, d) IN
       literal' =
         IF s.transform_.name = "identity"
           THEN [literal EXCEPT !.pc = "identity"]
           ELSE [literal EXCEPT !.pc = "built",
                                !.old_text = s.transform_.old_text,
                                !.new_text = s.transform_.new_text]
  /\ UNCHANGED <<arg>>
  /\ UNCHANGED spellVars
  /\ UNCHANGED casterVars
  /\ UNCHANGED composeVars
  /\ UNCHANGED decodeVars
  /\ UNCHANGED runeVars
  /\ UNCHANGED compareVars
  /\ UNCHANGED idemVars
  /\ UNCHANGED seqVars
  /\ UNCHANGED tokenVars
  /\ UNCHANGED pipelineVars
  /\ UNCHANGED unifiedVars

\* auto r = s(arg);  for the identity spell a rule without " -> " gives.
CallIdentityLiteral ==
  /\ literal.pc = "identity"
  /\ literal' = [literal EXCEPT !.pc = "done", !.ret = Returned(arg)]
  /\ UNCHANGED <<arg>>
  /\ UNCHANGED spellVars
  /\ UNCHANGED casterVars
  /\ UNCHANGED composeVars
  /\ UNCHANGED decodeVars
  /\ UNCHANGED runeVars
  /\ UNCHANGED compareVars
  /\ UNCHANGED idemVars
  /\ UNCHANGED seqVars
  /\ UNCHANGED tokenVars
  /\ UNCHANGED pipelineVars
  /\ UNCHANGED unifiedVars

\* auto r = s(arg);  up to the loop: utf8_input = input.to_utf8();
\* std::string result = utf8_input; size_t pos = 0;
CallLiteral ==
  /\ literal.pc = "built"
  /\ LET utf8_input == RuneString_to_utf8(arg.runes) IN
     literal' =
       IF utf8_input.threw
         THEN [literal EXCEPT !.pc = "done", !.ret = Raised]
         ELSE [literal EXCEPT !.pc = "find", !.result = utf8_input.bytes,
                              !.pos = 0]
  /\ UNCHANGED <<arg>>
  /\ UNCHANGED spellVars
  /\ UNCHANGED casterVars
  /\ UNCHANGED composeVars
  /\ UNCHANGED decodeVars
  /\ UNCHANGED runeVars
  /\ UNCHANGED compareVars
  /\ UNCHANGED idemVars
  /\ UNCHANGED seqVars
  /\ UNCHANGED tokenVars
  /\ UNCHANGED pipelineVars
  /\ UNCHANGED unifiedVars

\* The loop condition: (pos = result.find(old_text, pos)) != npos
FindNext ==
  /\ literal.pc = "find"
  /\ LET found == string_find(literal.result, literal.old_text, literal.pos)
     IN literal' =
          IF found = npos
            THEN [literal EXCEPT !.pc = "decode"]
            ELSE [literal EXCEPT !.pc = "replace", !.pos = found]
  /\ UNCHANGED <<arg>>
  /\ UNCHANGED spellVars
  /\ UNCHANGED casterVars
  /\ UNCHANGED composeVars
  /\ UNCHANGED decodeVars
  /\ UNCHANGED runeVars
  /\ UNCHANGED compareVars
  /\ UNCHANGED idemVars
  /\ UNCHANGED seqVars
  /\ UNCHANGED tokenVars
  /\ UNCHANGED pipelineVars
  /\ UNCHANGED unifiedVars

\* The loop body; the replace raises when the text would outgrow memory.
ReplaceFound ==
  /\ literal.pc = "replace"
  /\ LET after == replace_step(literal.result, literal.pos,
                               literal.old_text, literal.new_text)
     IN literal' =
          IF Len(after.result) > MaxText
            THEN [literal EXCEPT !.pc = "done", !.ret = Raised]
            ELSE [literal EXCEPT !.pc = "find", !.result = after.result,
                                 !.pos = after.pos]
  /\ UNCHANGED <<arg>>
  /\ UNCHANGED spellVars
  /\ UNCHANGED casterVars
  /\ UNCHANGED composeVars
  /\ UNCHANGED decodeVars
  /\ UNCHANGED runeVars
  /\ UNCHANGED compareVars
  /\ UNCHANGED idemVars
  /\ UNCHANGED seqVars
  /\ UNCHANGED tokenVars
  /\ UNCHANGED pipelineVars
  /\ UNCHANGED unifiedVars

\* return RuneSequence::from_utf8(result);
DecodeResult ==
  /\ literal.pc = "decode"
  /\ \E u \in Indeterminate :
       literal' =
         [literal EXCEPT !.pc = "done",
            !.ret = Returned(RuneString_from_utf8(literal.result, u))]
  /\ UNCHANGED <<arg>>
  /\ UNCHANGED spellVars
  /\ UNCHANGED casterVars
  /\ UNCHANGED composeVars
  /\ UNCHANGED decodeVars
  /\ UNCHANGED runeVars
  /\ UNCHANGED compareVars
  /\ UNCHANGED idemVars
  /\ UNCHANGED seqVars
  /\ UNCHANGED tokenVars
  /\ UNCHANGED pipelineVars
  /\ UNCHANGED unifiedVars

NextLiteral ==
  \/ WriteLiteral
  \/ CallIdentityLiteral
  \/ CallLiteral
  \/ FindNext
  \/ ReplaceFound
  \/ DecodeResult

\* The call runs on: a thread that can take its next step takes it.
SpecLiteral == InitLiteral /\ [][NextLiteral]_vars /\ WF_vars(NextLiteral)

(***************************************************************************)
(* Properties of the spells                                                *)
(***************************************************************************)

\* The scalar values of a rune sequence.
Codepoints(runes) == [i \in 1..Len(runes) |-> runes[i].codepoint]

\* The elements of s at the indices in K, in index order, from index i on.
RECURSIVE AtIndices(_, _, _)
AtIndices(s, K, i) ==
  IF i > Len(s) THEN <<>>
  ELSE (IF i \in K THEN <<s[i]>> ELSE <<>>) \o AtIndices(s, K, i + 1)

\* Reference pass 1 on scalar values: a whitespace unit that continues a run
\* is dropped when collapsing, every other whitespace unit becomes U+0020.
RefPass1(cps, collapse) ==
  LET kept == {i \in 1..Len(cps) :
                 \/ ~is_whitespace(cps[i])
                 \/ ~collapse
                 \/ i = 1
                 \/ ~is_whitespace(cps[i - 1])}
      canonical == [i \in 1..Len(cps) |->
                      IF is_whitespace(cps[i]) THEN 32 ELSE cps[i]]
  IN AtIndices(canonical, kept, 1)

\* Reference pass 2: the slice between the first and the last unit that is
\* not U+0020.
RefPass2(cps) ==
  LET solid == {i \in 1..Len(cps) : cps[i] # 32} IN
  IF solid = {} THEN <<>>
  ELSE SubSeq(cps,
              CHOOSE i \in solid : \A j \in solid : i <= j,
              CHOOSE i \in solid : \A j \in solid : j <= i)

RefWhitespace(cps, collapse, trim) ==
  IF trim THEN RefPass2(RefPass1(cps, collapse)) ELSE RefPass1(cps, collapse)

NonWhitespace(rune) == ~is_whitespace(rune.codepoint)

AllWhitespace(runes) == \A i \in 1..Len(runes) : is_whitespace(runes[i].codepoint)

CalledWhitespaceNormalizer == calls >= 1 /\ spell.name = "WhitespaceNormalizer"

\* C1: WhitespaceNormalizer(collapse, trim)(s) returns the scalar values of
\* the two-pass reference (pass 1 canonicalises / collapses whitespace, pass 2
\* strips leading and trailing U+0020 when trim), keeps every non-whitespace
\* unit unchanged and in order, and maps an all-whitespace input of n >= 1
\* units to nothing (trim), one space (collapse, no trim) or n spaces.
C1_TwoPassReference ==
  CalledWhitespaceNormalizer =>
    /\ ~ret.threw
    /\ Codepoints(ret.value.runes)
         = RefWhitespace(Codepoints(arg.runes), spell.collapse_multiple_,
                         spell.trim_edges_)
    /\ SelectSeq(ret.value.runes, NonWhitespace)
         = SelectSeq(arg.runes, NonWhitespace)
    /\ (AllWhitespace(arg.runes) /\ arg.runes # <<>>) =>
         Codepoints(ret.value.runes) =
           IF spell.trim_edges_ THEN <<>>
           ELSE IF spell.collapse_multiple_ THEN <<32>>
           ELSE [i \in 1..Len(arg.runes) |-> 32]

\* C1 witness: a collapsing, non-trimming call on a sequence that holds a
\* run of two different whitespace units between two other units.
C1_Witness ==
  /\ CalledWhitespaceNormalizer
  /\ spell.collapse_multiple_ /\ ~spell.trim_edges_
  /\ Codepoints(arg.runes) = <<97, 32, 160, 66>>
  /\ Codepoints(ret.value.runes) = <<97, 32, 66>>

\* C2: the output of WhitespaceNormalizer(collapse = true, trim = true) has no
\* two adjacent U+0020, neither starts nor ends with U+0020, and holds no
\* whitespace unit other than U+0020.
C2_CollapsedAndTrimmed ==
  (CalledWhitespaceNormalizer /\ spell.collapse_multiple_ /\ spell.trim_edges_) =>
    LET out == Codepoints(ret.value.runes) IN
    /\ \A i \in 1..(Len(out) - 1) : ~(out[i] = 32 /\ out[i + 1] = 32)
    /\ out # <<>> => (out[1] # 32 /\ out[Len(out)] # 32)
    /\ \A i \in 1..Len(out) : is_whitespace(out[i]) => out[i] = 32

\* C2 witness: a collapsing, trimming call on a sequence with an interior run
\* of whitespace and trailing whitespace other than U+0020.
C2_Witness ==
  /\ CalledWhitespaceNormalizer
  /\ spell.collapse_multiple_ /\ spell.trim_edges_
  /\ Codepoints(arg.runes) = <<97, 160, 32, 66>>
  /\ Codepoints(ret.value.runes) = <<97, 32, 66>>

\* ASCII case mapping of one scalar value.
AsciiUpper(cp) == IF cp >= 97 /\ cp <= 122 THEN cp - 32 ELSE cp

AsciiLower(cp) == IF cp >= 65 /\ cp <= 90 THEN cp + 32 ELSE cp

CalledTitle ==
  calls >= 1 /\ spell.name = "CaseConverter" /\ spell.case_type_ = "Title"

\* C3: CaseConverter(Title) capitalizes per word: the first scalar of the
\* input is upper-cased, every scalar that follows a non-whitespace scalar
\* (a later scalar of the same word) is lower-cased even when the word began
\* with a digit, a punctuation mark or a non-cased script, and whitespace
\* passes through unchanged.
C3_TitlePerWord ==
  CalledTitle =>
    LET in == Codepoints(arg.runes)
        out == Codepoints(ret.value.runes)
    IN /\ ~ret.threw
       /\ Len(out) = Len(in)
       /\ \A i \in 1..Len(in) :
            /\ is_whitespace(in[i]) => out[i] = in[i]
            /\ (~is_whitespace(in[i]) /\ i = 1) => out[i] = AsciiUpper(in[i])
            /\ (~is_whitespace(in[i]) /\ i > 1 /\ ~is_whitespace(in[i - 1]))
                 => out[i] = AsciiLower(in[i])

\* C4: CaseConverter(Title) takes every scalar accepted by
\* unicode::is_whitespace as a word boundary: the first non-whitespace scalar
\* of the input and the first non-whitespace scalar after any whitespace
\* scalar is upper-cased.
C4_WhitespaceBoundaries ==
  CalledTitle =>
    LET in == Codepoints(arg.runes)
        out == Codepoints(ret.value.runes)
    IN /\ ~ret.threw
       /\ Len(out) = Len(in)
       /\ \A i \in 1..Len(in) :
            (~is_whitespace(in[i]) /\ (i = 1 \/ is_whitespace(in[i - 1])))
              => out[i] = AsciiUpper(in[i])

\* C5: a second call of the same spell object on the same input returns the
\* same sequence as the first call (units, their annotations and the primary
\* language), and the input is left as it was.
C5_SameOutputOnSecondCall ==
  calls = 2 => again = ret

(***************************************************************************)
(* C6: the pipe and the fluent caster forms.                               *)
(***************************************************************************)

\* The values s(x) can be: one per value the uninitialised primary language
\* of the spell's local result can hold.
Applied(s, x) == {Invoke(s, x, u) : u \in Indeterminate}

\* The values s2(s1(x)) can be, for the two spells of the chain.
S2S1(x) ==
  UNION {Applied(chain[2], o.value) : o \in {a \in Applied(chain[1], x) : ~a.threw}}

\* C6: after one cast the caster holds s1(arg); after two casts it holds
\* s2(s1(arg)), and so does arg | s1 | s2; both forms carry the same units.
C6_CasterHoldsLatestOutput ==
  /\ Len(chain) = 1 =>
       [threw |-> fluent.threw, value |-> caster_result(fluent)]
         \in Applied(chain[1], arg)
  /\ Len(chain) = 2 =>
       [threw |-> fluent.threw, value |-> caster_result(fluent)] \in S2S1(arg)
  /\ pipes = 1 => piped \in Applied(chain[1], arg)
  /\ pipes = 2 =>
       /\ piped \in S2S1(arg)
       /\ piped.value.runes = caster_result(fluent).runes

\* "  a B" through WhitespaceNormalizer then CaseConverter(Upper): both forms
\* hold "A B", which neither spell alone produces.
C6_Witness ==
  /\ Codepoints(arg.runes) = <<32, 32, 97, 66>>
  /\ Len(chain) = 2
  /\ chain[1] = WhitespaceNormalizerSpell(TRUE, TRUE)
  /\ chain[2] = CaseConverterSpell("Upper")
  /\ pipes = 2
  /\ Codepoints(caster_result(fluent).runes) = <<65, 66>>
  /\ Codepoints(piped.value.runes) = <<65, 66>>

(***************************************************************************)
(* C7: composition order and associativity.                                *)
(***************************************************************************)

\* The values C(B(A(x))) can be, by three direct calls.
CBA(x) ==
  UNION {IF b.threw THEN {b} ELSE Applied(abc[3], b.value)
         : b \in UNION {IF a.threw THEN {a} ELSE Applied(abc[2], a.value)
                        : a \in Applied(abc[1], x)}}

\* C7: whichever way the three spells are grouped, by compose or by the
\* unified pipe, the composed call returns a value of C(B(A(arg))), and its
\* units are the units of every such value.
C7_ComposedIsCBA ==
  form # "none" =>
    /\ composed \in CBA(arg)
    /\ \A o \in CBA(arg) :
         /\ o.threw = composed.threw
         /\ o.value.runes = composed.value.runes

\* "aB" through Upper, Upper, Title in the left-nested pipe is "Ab", which
\* the three spells give in no other order.
C7_Witness ==
  /\ Codepoints(arg.runes) = <<97, 66>>
  /\ abc = <<CaseConverterSpell("Upper"), CaseConverterSpell("Upper"),
             CaseConverterSpell("Title")>>
  /\ form = "(A|B)|C"
  /\ Codepoints(composed.value.runes) = <<65, 98>>

(***************************************************************************)
(* C8, C9, C10: the decoders.                                              *)
(***************************************************************************)

\* A Unicode scalar value.
ValidScalar(cp) == cp >= 0 /\ cp <= 1114111 /\ ~(cp >= 55296 /\ cp <= 57343)

\* The length of the well-formed UTF-8 character (Unicode, table 3-7) that
\* the bytes b begin with at index i, or 0 when there is none.
WellFormedAt(b, i) ==
  LET n == Len(b) - i + 1
      In(k, lo, hi) == b[i + k] >= lo /\ b[i + k] <= hi
  IN
  IF n < 1 THEN 0
  ELSE IF In(0, 0, 127) THEN 1
  ELSE IF n >= 2 /\ In(0, 194, 223) /\ In(1, 128, 191) THEN 2
  ELSE IF n >= 3 /\ In(2, 128, 191)
          /\ \/ In(0, 224, 224) /\ In(1, 160, 191)
             \/ In(0, 225, 236) /\ In(1, 128, 191)
             \/ In(0, 237, 237) /\ In(1, 128, 159)
             \/ In(0, 238, 239) /\ In(1, 128, 191)
    THEN 3
  ELSE IF n >= 4 /\ In(2, 128, 191) /\ In(3, 128, 191)
          /\ \/ In(0, 240, 240) /\ In(1, 144, 191)
             \/ In(0, 241, 243) /\ In(1, 128, 191)
             \/ In(0, 244, 244) /\ In(1, 128, 143)
    THEN 4
  ELSE 0

\* The scalar value of the well-formed character of length n at index i.
ScalarAt(b, i, n) ==
  CASE n = 1 -> b[i]
    [] n = 2 -> (b[i] % 32) * 64 + (b[i + 1] % 64)
    [] n = 3 -> (b[i] % 16) * 4096 + (b[i + 1] % 64) * 64 + (b[i + 2] % 64)
    [] n = 4 -> (b[i] % 8) * 262144 + (b[i + 1] % 64) * 4096
                + (b[i + 2] % 64) * 64 + (b[i + 3] % 64)

\* The UTF-16 units w begin with a BMP scalar or with a surrogate pair.
WellFormedUtf16(w) ==
  /\ Len(w) >= 1
  /\ \/ w[1] < 55296
     \/ w[1] > 57343
     \/ /\ w[1] <= 56319
        /\ Len(w) >= 2
        /\ w[2] >= 56320
        /\ w[2] <= 57343

\* C8: Rune::from_utf8 raises on every input that does not begin with a
\* well-formed UTF-8 character (empty, truncated, invalid lead, bad trail
\* byte, overlong), and Rune::from_utf16 raises on the empty string, an
\* unpaired high surrogate and a lone low surrogate.
C8_StrictSingleDecoders ==
  /\ api = "Rune::from_utf8" /\ WellFormedAt(units, 1) = 0 => decoded.threw
  /\ api = "Rune::from_utf16" /\ ~WellFormedUtf16(units) => decoded.threw

\* C9: every rune a decoder returned holds a Unicode scalar value, and
\* to_utf8() on what was decoded does not raise.
C9_DecodedAreScalars ==
  /\ api # "none" /\ ~decoded.threw =>
       \A i \in 1..Len(decoded.runes) : ValidScalar(decoded.runes[i].codepoint)
  /\ ~encoded.threw

\* What tolerant decoding is to keep of the bytes b from index i on: a byte
\* that is no lead byte is skipped alone, a lead byte whose declared
\* character does not fit in the rest ends the decoding, a malformed
\* declared character is skipped with its declared length, a well-formed
\* one is kept.
RECURSIVE TolerantRef(_, _)
TolerantRef(b, i) ==
  IF i > Len(b) THEN <<>>
  ELSE
    LET declared == IF b[i] <= 127 THEN 1
                    ELSE IF b[i] \div 32 = 6 THEN 2
                    ELSE IF b[i] \div 16 = 14 THEN 3
                    ELSE IF b[i] \div 8 = 30 THEN 4
                    ELSE 0
    IN
    IF declared = 0 THEN TolerantRef(b, i + 1)
    ELSE IF i + declared - 1 > Len(b) THEN <<>>
    ELSE IF WellFormedAt(b, i) = declared
      THEN <<ScalarAt(b, i, declared)>> \o TolerantRef(b, i + declared)
    ELSE TolerantRef(b, i + declared)

\* C10: RuneString::from_utf8 never raises and returns exactly the
\* well-formed characters of the input, in order, skipping the rest.
C10_TolerantDecode ==
  api = "RuneString::from_utf8" =>
    /\ ~decoded.threw
    /\ Codepoints(decoded.runes) = TolerantRef(units, 1)

(***************************************************************************)
(* C11, C12: Rune encodings and language detection.                        *)
(***************************************************************************)

\* C11: for a valid scalar value, to_utf8 gives 1, 2, 3 or 4 bytes by range
\* (U+AC00 gives EA B0 80) and from_utf8 gives the value back; to_utf16
\* gives a pair exactly above 0xFFFF and from_utf16 gives the value back.
C11_RoundTrip ==
  ValidScalar(codepoint) =>
    /\ utf8rt.done =>
         /\ ~utf8rt.threw
         /\ utf8rt.decoded.codepoint = codepoint
         /\ Len(utf8rt.units) = (IF codepoint <= 127 THEN 1
                                 ELSE IF codepoint <= 2047 THEN 2
                                 ELSE IF codepoint <= 65535 THEN 3
                                 ELSE 4)
         /\ codepoint = 44032 => utf8rt.units = <<234, 176, 128>>
    /\ utf16rt.done =>
         /\ ~utf16rt.threw
         /\ utf16rt.decoded.codepoint = codepoint
         /\ Len(utf16rt.units) = (IF codepoint > 65535 THEN 2 ELSE 1)

\* U+10000 went through both encodings: four bytes, a surrogate pair.
C11_Witness ==
  /\ codepoint = 65536
  /\ utf8rt.done
  /\ utf8rt.units = <<240, 144, 128, 128>>
  /\ utf8rt.decoded.codepoint = 65536
  /\ utf16rt.done
  /\ utf16rt.units = <<55296, 56320>>
  /\ utf16rt.decoded.codepoint = 65536

\* The block table of language hints.
BlockTable(c) ==
  IF (c >= 4352 /\ c <= 4607) \/ (c >= 12592 /\ c <= 12687)
     \/ (c >= 44032 /\ c <= 55215) THEN "Korean"
  ELSE IF (c >= 12352 /\ c <= 12543) \/ (c >= 12784 /\ c <= 12799)
    THEN "Japanese"
  ELSE IF c >= 13312 /\ c <= 19903 THEN "Chinese"
  ELSE IF c >= 19968 /\ c <= 40959 THEN "Chinese"
  ELSE IF (c >= 65 /\ c <= 90) \/ (c >= 97 /\ c <= 122) THEN "English"
  ELSE IF (c >= 128 /\ c <= 591) \/ (c >= 7680 /\ c <= 7935) THEN "English"
  ELSE IF c >= 1024 /\ c <= 1279 THEN "Russian"
  ELSE IF c >= 1536 /\ c <= 1791 THEN "Arabic"
  ELSE IF c >= 1424 /\ c <= 1535 THEN "Hebrew"
  ELSE IF c >= 3584 /\ c <= 3711 THEN "Thai"
  ELSE "Unknown"

\* C12: the language of a constructed Rune is the block table's, whichever
\* definition of detect_language the constructor reaches.
C12_LanguageTable ==
  constructed.made => constructed.value.language = BlockTable(codepoint)

\* C13: two Runes with the same code point compare equal and neither is
\* less, whatever their languages and phonemes; two RuneStrings with the
\* same code points in the same order compare equal, whatever their hints,
\* phonemes and primary languages.
C13_ScalarIdentity ==
  cmp.done =>
    /\ lhs.kind = "Rune" /\ lhs.value.codepoint = rhs.value.codepoint =>
         cmp.eq /\ ~cmp.less
    /\ lhs.kind = "RuneString"
       /\ Codepoints(lhs.value.runes) = Codepoints(rhs.value.runes) =>
         cmp.eq

\* The languages of the hinted units of a sequence.
Hinted(runes) ==
  {runes[i].language : i \in 1..Len(runes)} \ {"Unknown"}

\* C14: the primary language of a decoded or list-constructed sequence is
\* Unknown when no unit carries a hint, and otherwise a language carried by
\* the greatest number of units.
C14_PrimaryLanguageVote ==
  api \in {"RuneString::from_utf8", "RuneString::from_utf16",
           "RuneString::from_utf32", "RuneString{...}"} =>
    IF Hinted(decoded.runes) = {}
      THEN decoded.primary_language = "Unknown"
      ELSE /\ decoded.primary_language \in Hinted(decoded.runes)
           /\ \A l \in Hinted(decoded.runes) :
                CountLanguage(decoded.runes, l)
                  <= CountLanguage(decoded.runes, decoded.primary_language)

(***************************************************************************)
(* C15, C16: TrimEdges and idempotence.                                    *)
(***************************************************************************)

CalledTrimEdges == calls >= 1 /\ spell.name = "TrimEdges"

\* The indices of the units of a sequence that are not whitespace.
NonWhitespaceAt(runes) ==
  {i \in 1..Len(runes) : ~is_whitespace(runes[i].codepoint)}

\* i is the least / the greatest element of the set K of numbers.
IsLeast(i, K) == i \in K /\ \A k \in K : i <= k

IsGreatest(i, K) == i \in K /\ \A k \in K : k <= i

\* C15: the result of TrimEdges is the slice of the input from its first to
\* its last non-whitespace unit, units unchanged, and is empty when the
\* input has no such unit.
C15_TrimIsSlice ==
  CalledTrimEdges =>
    /\ ~ret.threw
    /\ IF NonWhitespaceAt(arg.runes) = {} THEN ret.value.runes = <<>>
       ELSE \E first, last \in NonWhitespaceAt(arg.runes) :
              /\ IsLeast(first, NonWhitespaceAt(arg.runes))
              /\ IsGreatest(last, NonWhitespaceAt(arg.runes))
              /\ ret.value.runes = SubSeq(arg.runes, first, last)

\* Of space, "a", NBSP, "B" the leading space goes and the interior NBSP
\* stays as it is.
C15_Witness ==
  /\ CalledTrimEdges
  /\ Codepoints(arg.runes) = <<32, 97, 160, 66>>
  /\ Codepoints(ret.value.runes) = <<97, 160, 66>>

\* C16: TrimEdges and WhitespaceNormalizer(true, true), called on their own
\* result, return the units of that result.
C16_Idempotent ==
  /\ calls = 3
  /\ \/ spell.name = "TrimEdges"
     \/ spell = WhitespaceNormalizerSpell(TRUE, TRUE)
  => /\ ~twice.threw
     /\ twice.value.runes = ret.value.runes

\* NBSP, "a", space, space through WhitespaceNormalizer(true, true) is "a",
\* and "a" again on the second call.
C16_Witness ==
  /\ calls = 3
  /\ spell = WhitespaceNormalizerSpell(TRUE, TRUE)
  /\ Codepoints(arg.runes) = <<160, 97, 32, 32>>
  /\ Codepoints(ret.value.runes) = <<97>>
  /\ Codepoints(twice.value.runes) = <<97>>

(***************************************************************************)
(* C17: s.substr(start, length) returns the units s[start] ..              *)
(* s[min(start+length, size)-1] in order, all remaining units when length  *)
(* is omitted (npos), the empty sequence when start >= size; it leaves s   *)
(* unchanged and the result's primary_language is s's current              *)
(* primary_language, not a vote over the slice.                            *)
(***************************************************************************)

CalledSubstr == op.name = "substr"

\* The index one past the last unit of the slice.
SliceEnd(size, start, length) ==
  IF length = npos \/ start + length > size THEN size ELSE start + length

\* The units s[start] .. s[end - 1], 0-based, of a sequence of runes.
Slice(runes, start, end) ==
  IF start >= end THEN <<>>
  ELSE [i \in 1..(end - start) |-> runes[start + i]]

C17_SubstrIsSlice ==
  CalledSubstr =>
    LET s == op.before
        end == SliceEnd(Len(s.runes), op.start, op.length)
    IN /\ opret.value.runes = Slice(s.runes, op.start, end)
       /\ (op.start >= Len(s.runes) => opret.value.runes = <<>>)
       /\ opret.value.primary_language = s.primary_language
       /\ arg = s

\* "aB a" with primary language set to Korean: substr(1, 2) is "B " and
\* still Korean, although a vote over the slice would say English.
C17_Witness ==
  /\ CalledSubstr
  /\ op.start = 1
  /\ op.length = 2
  /\ op.before.primary_language = "Korean"
  /\ Len(op.before.runes) = 4
  /\ Len(opret.value.runes) = 2
  /\ MostFrequentLanguage(opret.value.runes, "Unknown") = "English"
  /\ opret.value.primary_language = "Korean"

(***************************************************************************)
(* C18: s.find(needle, from) returns the smallest index i >= from at which *)
(* needle occurs in s element by element, elements being equal when their  *)
(* scalar values are equal, and npos when there is no such index; an empty *)
(* needle sequence returns from.  contains(x) is true exactly when find(x) *)
(* is not npos.                                                            *)
(***************************************************************************)

CalledFind == op.name \in {"find(Rune)", "find(RuneString)"}

\* The needle of the call as a sequence of runes.
NeedleOf(o) ==
  IF o.name = "find(Rune)" THEN <<o.needle>> ELSE o.needle.runes

\* needle occurs in runes at the 0-based index i, by scalar value.
OccursAt(runes, needle, i) ==
  /\ i + Len(needle) <= Len(runes)
  /\ \A k \in 1..Len(needle) : runes[i + k].codepoint = needle[k].codepoint

\* The smallest index >= from at which needle occurs, npos when none.
FirstOccurrence(runes, needle, from) ==
  LET found == {i \in from..Len(runes) : OccursAt(runes, needle, i)} IN
  IF found = {} THEN npos ELSE Least(found)

C18_FindFirstOccurrence ==
  CalledFind =>
    LET runes == op.before.runes
        needle == NeedleOf(op)
    IN /\ needle # <<>> =>
            opret.index = FirstOccurrence(runes, needle, op.pos)
       /\ needle = <<>> => opret.index = op.pos
       /\ opret.contains <=> (FirstOccurrence(runes, needle, 0) # npos)

(***************************************************************************)
(* C19: from_utf8(text, lang) returns the units of from_utf8(text) in the  *)
(* same order, every unit whose detected hint is Unknown carrying lang and *)
(* the others keeping their hint, and its primary_language is lang         *)
(* whatever the vote says.  An append of a unit, a sequence or text leaves *)
(* the primary_language of the sequence unchanged.                         *)
(***************************************************************************)

CalledFromUtf8WithLanguage == op.name = "from_utf8"

CalledAppend ==
  op.name \in {"append(Rune)", "append(RuneString)", "append(utf8)"}

\* hinted is plain with lang in place of every Unknown hint.
HintsForced(hinted, plain, lang) ==
  /\ Len(hinted) = Len(plain)
  /\ \A i \in 1..Len(plain) :
       /\ hinted[i].codepoint = plain[i].codepoint
       /\ hinted[i].phoneme = plain[i].phoneme
       /\ hinted[i].language =
            (IF plain[i].language = "Unknown" THEN lang
             ELSE plain[i].language)

C19_HintedDecodeAndAppend ==
  /\ CalledFromUtf8WithLanguage =>
       /\ \A u \in Indeterminate :
            HintsForced(arg.runes, RuneString_from_utf8(op.text, u).runes,
                        op.lang)
       /\ arg.primary_language = op.lang
  /\ CalledAppend =>
       /\ arg.primary_language = op.before.primary_language
       /\ SubSeq(arg.runes, 1, Len(op.before.runes)) = op.before.runes

\* from_utf8("a1", Korean) is "a" (English) and "1" (Korean) with primary
\* language Korean; after append of "aB" three of the four units are
\* English and the primary language is still Korean.
C19_Witness ==
  /\ CalledAppend
  /\ Len(op.before.runes) = 2
  /\ op.before.runes[1] = Rune(97)
  /\ op.before.runes[2] = RuneWithLanguage(49, "Korean")
  /\ Len(arg.runes) = 4
  /\ MostFrequentLanguage(arg.runes, "Unknown") = "English"
  /\ arg.primary_language = "Korean"

(***************************************************************************)
(* C20: LanguageDetector sets the primary language of its result to the    *)
(* language mapped from the most frequent script among the units whose     *)
(* script is not Unknown (Latin: English, Hangul: Korean, Hiragana,        *)
(* Katakana and Han: Japanese); units of Unknown script take no part in    *)
(* the vote, so the result is Unknown only when no unit has a known        *)
(* script.  The units of the result are the units of the input.            *)
(***************************************************************************)

CalledLanguageDetector == op.name = "LanguageDetector"

\* How many of the runes have the script sc.
UnitsOfScript(runes, sc) ==
  Cardinality({i \in 1..Len(runes) : get_script(runes[i].codepoint) = sc})

\* The scripts other than Unknown that occur in the runes.
KnownScripts(runes) ==
  {sc \in Script \ {"Unknown"} : UnitsOfScript(runes, sc) > 0}

\* The language the claim maps a script to.
MappedLanguage(sc) ==
  CASE sc = "Latin" -> "English"
    [] sc = "Hangul" -> "Korean"
    [] sc \in {"Hiragana", "Katakana", "Han"} -> "Japanese"
    [] OTHER -> "Unknown"

C20_VoteOverKnownScripts ==
  CalledLanguageDetector =>
    LET runes == op.before.runes
        known == KnownScripts(runes)
    IN /\ opret.value.runes = runes
       /\ (opret.value.primary_language = "Unknown") <=> (known = {})
       /\ known # {} =>
            \E sc \in known :
              /\ \A other \in known :
                   UnitsOfScript(runes, other) <= UnitsOfScript(runes, sc)
              /\ opret.value.primary_language = MappedLanguage(sc)

(***************************************************************************)
(* C21: PunctuationFilter(remove)(s) is the subsequence of s, in order and *)
(* with units unchanged, of the units that are not punctuation when remove *)
(* is true and of those that are when remove is false; the sizes of the    *)
(* two modes add up to the size of s, and each mode is idempotent.         *)
(***************************************************************************)

CalledPunctuationFilter == calls >= 1 /\ spell.name = "PunctuationFilter"

\* The indices of the runes that are (punct) or are not punctuation.
PunctuationAt(runes, punct) ==
  {i \in 1..Len(runes) : is_punctuation(runes[i].codepoint) = punct}

C21_FilterIsSubsequence ==
  CalledPunctuationFilter =>
    /\ ~ret.threw
    /\ ret.value.runes =
         AtIndices(arg.runes, PunctuationAt(arg.runes, ~spell.remove_mode_), 1)
    /\ \A u \in Indeterminate :
         LET other == PunctuationFilter(~spell.remove_mode_, arg, u) IN
         /\ ~other.threw
         /\ Len(ret.value.runes) + Len(other.value.runes) = Len(arg.runes)
    /\ calls = 3 =>
         /\ ~twice.threw
         /\ twice.value.runes = ret.value.runes

\* "a", "!", Hangul GA, "!" through PunctuationFilter(false) is "!!", and
\* "!!" again when the filter is called on that.
C21_Witness ==
  /\ CalledPunctuationFilter
  /\ calls = 3
  /\ ~spell.remove_mode_
  /\ Codepoints(arg.runes) = <<97, 33, 44032, 33>>
  /\ Codepoints(ret.value.runes) = <<33, 33>>
  /\ Codepoints(twice.value.runes) = <<33, 33>>

(***************************************************************************)
(* C22: without a normalization backend UnicodeNormalizer(form) is the     *)
(* identity for NFC, NFD, NFKC and NFKD: the result has the scalar values  *)
(* of the input in the same order, and the call does not raise.            *)
(***************************************************************************)

CalledUnicodeNormalizer == calls >= 1 /\ spell.name = "UnicodeNormalizer"

CalledLowerOrUpper ==
  /\ calls >= 1
  /\ spell.name = "CaseConverter"
  /\ spell.case_type_ \in {"Lower", "Upper"}

C23_OnlyAsciiLettersChange ==
  CalledLowerOrUpper =>
    /\ ~ret.threw
    /\ Len(ret.value.runes) = Len(arg.runes)
    /\ \A i \in 1..Len(arg.runes) :
         LET before == arg.runes[i].codepoint
             after == ret.value.runes[i].codepoint
         IN IF spell.case_type_ = "Lower" /\ before >= 65 /\ before <= 90
              THEN after = before + 32
            ELSE IF spell.case_type_ = "Upper" /\ before >= 97 /\ before <= 122
              THEN after = before - 32
            ELSE after = before

\* Upper on "a", "B", "1", Hangul GA: only the "a" changes.
C23_Witness ==
  /\ CalledLowerOrUpper
  /\ spell.case_type_ = "Upper"
  /\ Codepoints(arg.runes) = <<97, 66, 49, 44032>>
  /\ Codepoints(ret.value.runes) = <<65, 66, 49, 44032>>

(***************************************************************************)
(* C24: for every text t of ASCII letters, Lower(Upper(t)) == Lower(t),    *)
(* Lower and Upper being CaseConverter(Lower) and CaseConverter(Upper) and *)
(* == the equality of sequences.                                           *)
(***************************************************************************)

IsAsciiLetter(c) == (c >= 65 /\ c <= 90) \/ (c >= 97 /\ c <= 122)

\* The pipeline was arg | Upper | Lower on a text of ASCII letters.
AppliedUpperThenLower ==
  /\ spell1 = CaseConverterSpell("Upper")
  /\ spell2 = CaseConverterSpell("Lower")
  /\ \A i \in 1..Len(arg.runes) : IsAsciiLetter(arg.runes[i].codepoint)

C24_LowerAfterUpper ==
  AppliedUpperThenLower =>
    /\ ~ret2.threw
    /\ \A lower \in InvokeAny(CaseConverterSpell("Lower"), arg) :
         /\ ~lower.threw
         /\ RuneString_eq(ret2.value, lower.value)

\* "aB" becomes "AB" and then "ab".
C24_Witness ==
  /\ AppliedUpperThenLower
  /\ Codepoints(arg.runes) = <<97, 66>>
  /\ Codepoints(ret1.value.runes) = <<65, 66>>
  /\ Codepoints(ret2.value.runes) = <<97, 98>>

(***************************************************************************)
(* C25: every spell applied to the empty sequence returns an empty result  *)
(* without raising: WhitespaceNormalizer with every flag pair,             *)
(* CaseConverter in every mode, UnicodeNormalizer with every form,         *)
(* TrimEdges, PunctuationFilter in both modes, LanguageDetector, the       *)
(* WhitespaceTokenizer (an empty token list), and any pipe of these.       *)
(***************************************************************************)

\* The pipeline was fed the empty sequence and at least one spell ran.
AppliedToEmpty ==
  /\ arg.runes = <<>>
  /\ spell1.name # "none" \/ tokens.done

C25_EmptyInEmptyOut ==
  AppliedToEmpty =>
    /\ spell1.name # "none" => ~ret1.threw /\ ret1.value.runes = <<>>
    /\ spell2.name # "none" => ~ret2.threw /\ ret2.value.runes = <<>>
    /\ tokens.done => tokens.list = <<>>

\* The empty sequence through LanguageDetector, then PunctuationFilter in
\* keep mode, then the tokenizer: empty, empty, no tokens.
C25_Witness ==
  /\ AppliedToEmpty
  /\ spell1 = LanguageDetectorSpell
  /\ spell2 = PunctuationFilterSpell(FALSE)
  /\ ret2.value.runes = <<>>
  /\ tokens.done
  /\ tokens.list = <<>>

(***************************************************************************)
(* C30: language metadata survives a pipeline: each unit kept by           *)
(* WhitespaceNormalizer, TrimEdges, PunctuationFilter, CaseConverter or    *)
(* UnicodeNormalizer keeps the language hint and the phoneme it had in the *)
(* input, and the primary_language of the result is that of the input.     *)
(***************************************************************************)

\* The hint and phoneme of every unit that is not whitespace, in order.
RECURSIVE Metadata(_)
Metadata(runes) ==
  IF runes = <<>> THEN <<>>
  ELSE (IF is_whitespace(Head(runes).codepoint) THEN <<>>
        ELSE <<[language |-> Head(runes).language,
                phoneme |-> Head(runes).phoneme]>>)
       \o Metadata(Tail(runes))

\* The units of the input that the spell s keeps.
KeptBy(s, runes) ==
  IF s.name = "PunctuationFilter"
    THEN AtIndices(runes, PunctuationAt(runes, ~s.remove_mode_), 1)
    ELSE runes

\* s turned the sequence input into the outcome o with the metadata kept.
MetadataKept(s, input, o) ==
  s.name \in {"WhitespaceNormalizer", "TrimEdges", "PunctuationFilter",
              "CaseConverter", "UnicodeNormalizer"} =>
    /\ ~o.threw
    /\ Metadata(o.value.runes) = Metadata(KeptBy(s, input.runes))
    /\ o.value.primary_language = input.primary_language

C30_MetadataSurvives ==
  /\ spell1.name # "none" => MetadataKept(spell1, arg, ret1)
  /\ spell2.name # "none" => MetadataKept(spell2, ret1.value, ret2)

(***************************************************************************)
(* C28: WhitespaceTokenizer splits a sequence into its maximal runs of     *)
(* non-whitespace units: no token is empty, no token holds a whitespace    *)
(* unit, the tokens are in input order, their concatenation is the input   *)
(* without its whitespace units, and there are as many tokens as maximal   *)
(* non-whitespace runs.                                                    *)
(***************************************************************************)

CalledWhitespaceTokenizer == tokens.done

\* The runes of the tokens, one after the other.
RECURSIVE Concatenation(_)
Concatenation(list) ==
  IF list = <<>> THEN <<>>
  ELSE Head(list).runes \o Concatenation(Tail(list))

\* The indices at which a maximal run of non-whitespace units starts.
RunStarts(runes) ==
  {i \in 1..Len(runes) :
     /\ ~is_whitespace(runes[i].codepoint)
     /\ i = 1 \/ is_whitespace(runes[i - 1].codepoint)}

\* The k-th maximal run of non-whitespace units, counted from 1.
KthRun(runes, k) ==
  LET starts == RunStarts(runes)
      i == CHOOSE j \in starts : Cardinality({h \in starts : h <= j}) = k
      e == CHOOSE j \in i..Len(runes) :
             /\ \A h \in i..j : ~is_whitespace(runes[h].codepoint)
             /\ j = Len(runes) \/ is_whitespace(runes[j + 1].codepoint)
  IN SubSeq(runes, i, e)

C28_TokensAreRuns ==
  CalledWhitespaceTokenizer =>
    /\ \A k \in 1..Len(tokens.list) :
         /\ tokens.list[k].runes # <<>>
         /\ \A i \in 1..Len(tokens.list[k].runes) :
              ~is_whitespace(tokens.list[k].runes[i].codepoint)
    /\ Concatenation(tokens.list) =
         AtIndices(arg.runes,
                   {i \in 1..Len(arg.runes) :
                      ~is_whitespace(arg.runes[i].codepoint)}, 1)
    /\ Len(tokens.list) = Cardinality(RunStarts(arg.runes))
    /\ \A k \in 1..Len(tokens.list) :
         tokens.list[k].runes = KthRun(arg.runes, k)

\* Space, "a", tab, "!": two tokens, "a" and "!".
C28_Witness ==
  /\ CalledWhitespaceTokenizer
  /\ Codepoints(arg.runes) = <<32, 97, 9, 33>>
  /\ Len(tokens.list) = 2
  /\ Codepoints(tokens.list[1].runes) = <<97>>
  /\ Codepoints(tokens.list[2].runes) = <<33>>

(***************************************************************************)
(* C26: composition_depth() counts the simple spells of a unified Spell    *)
(* and is_composition() tells whether operator| built it: depth 1 and not  *)
(* a composition for every simple spell however it was built, the sum of   *)
(* the operands' depths and a composition for a | b, so N for a chain of   *)
(* N simple spells in any grouping.                                        *)
(***************************************************************************)
C26_DepthCountsSimpleSpells ==
  built # NoUnified =>
    /\ built.composition_depth_ = SimpleCount(built.transform_)
    /\ built.is_composition_ = (built.transform_.name = "composed_transform")

(***************************************************************************)
(* C27: is_identity() is true only for spells that return their argument   *)
(* unchanged; it is true for Spell::identity() and a default-constructed   *)
(* Spell and false for every composition.                                  *)
(***************************************************************************)
C27_IdentityOnlyForIdentity ==
  built # NoUnified =>
    /\ applied.done /\ Spell_is_identity(built)
         => /\ ~applied.ret.threw
            /\ Codepoints(applied.ret.value.runes) = Codepoints(arg.runes)
    /\ built \in IdentitySpells => Spell_is_identity(built)
    /\ built.transform_.name = "composed_transform"
         => ~Spell_is_identity(built)

(***************************************************************************)
(* C29: a call of a spell the _spell literal built terminates, for every   *)
(* rule and every input.                                                   *)
(***************************************************************************)
C29_LiteralCallTerminates == <>(literal.pc = "done")

====
